---- MODULE Spec2Model ----
(***************************************************************************)
(* The request/reply pipeline of the breadx display.                       *)
(*                                                                         *)
(*   Spec      one caller driving a display: send_request_internal, wait,  *)
(*             set_checked, retrieve_pending_reply/error, each a whole     *)
(*             call.                                                       *)
(*   SpecWrap  the same calls for requests with a reply and well-formed    *)
(*             replies only, one send more.                                *)
(*   SpecEvents  the event queues: events dispatched by wait, the special  *)
(*             queues registered, read and dropped.                        *)
(*   SpecSeq   next_request_number alone, called 2^16 times and more, in   *)
(*             each variant.                                               *)
(*   SpecConc  several threads in send_request_internal on one             *)
(*             Display<_, SyncVariant>, one atomic operation per step.     *)
(*   SpecExt   extension requests, the QueryExtension exchange going each  *)
(*             way it can.                                                 *)
(*   SpecEncode  encode_request over the lengths as_bytes returns.         *)
(*   SpecFlood  sends on a display nobody reads from, past 2^16 of them.   *)
(*   SpecAsync  wait_async and send_request_internal_async, polled,        *)
(*             completed or dropped.                                       *)
(*   SpecVariants  the DisplayVariant operations on either variant, by     *)
(*             one caller.                                                 *)
(*   SpecRoute  process_bytes of SyncVariant, one table call per step.     *)
(*   SpecChecked  send_request_internal and set_checked of SyncVariant,    *)
(*             interleaved.                                                *)
(*   SpecXidAssert  next() of both XID generators up to its assert_eq!.    *)
(*   SpecPoll   poll_send_packet and poll_read_packet across suspensions.  *)
(*   SpecXid   the XID generator: set_xid_base, then generate_xid.         *)
(*   SpecXidConc  several threads in XidGeneratorSync::next, one atomic    *)
(*             load or store per step.                                     *)
(***************************************************************************)
EXTENDS Integers, Sequences, FiniteSets, TLC

(***************************************************************************)
(* Widths and protocol constants.                                          *)
(***************************************************************************)
SeqModulus == 65536
TYPE_ERROR == 0
TYPE_REPLY == 1
GENERIC_EVENT == 35
GE_MASK == 127
GlxMagic == 65540

(***************************************************************************)
(* Bounds of the exploration.                                              *)
(***************************************************************************)
MaxSends == 2
MaxWaits == 2
MaxRuns == 1
MaxQueue == 1
MaxCalls == 3
MaxWrapSends == 3
MaxEventWaits == 4
MaxEvents == 3
MaxXidCalls == 258
MaxExtSends == 3
MaxEncodes == 2
MaxFloodSends == 3
\* SpecPoll: the longest packet, and the polls one packet is given
PacketLen == 3
MaxPolls == 3
\* SpecVariants: sends, and waits, of the single caller
MaxVariantCalls == 1
MaxXidConcCalls == 3
NumThreads == 2

None == "None"
\* Option<_>: << >> is None, <<x>> is Some(x)
NoOrigin == << >>
NoWord == << >>
Some(x) == <<x>>

(***************************************************************************)
(* HashMap / DashMap as functions with a finite domain.                    *)
(***************************************************************************)
EmptyMap == << >>
MapInsert(m, k, v) == [x \in (DOMAIN m) \cup {k} |-> IF x = k THEN v ELSE m[x]]
MapRemove(m, k) == [x \in (DOMAIN m) \ {k} |-> m[x]]
\* retain with the predicate the other way round: keep the checked entries
RetainChecked(m) == [x \in {y \in DOMAIN m : m[y].checked} |-> m[x]]
\* HashMap::retain with the predicate of set_checked: keep the entries that
\* are not checked
RetainUnchecked(m) == [x \in {y \in DOMAIN m : ~m[y].checked} |-> m[x]]

VARIABLES
    debug_assertions,     \* cfg!(debug_assertions) of the build
    variant,              \* "unsync" or "sync": which DisplayVariant is used
    request_number,       \* UnsyncVariant.request_number / SyncVariant.request_number
    checked,              \* the variant's checked flag
    pending_requests,     \* u16 -> PendingRequestFlags
    pending_errors,       \* u16 -> parsed X error (the frame it was parsed from)
    pending_replies,      \* u16 -> PendingReply(bytes, fds)
    event_queue,          \* the main event FIFO
    special_event_queues, \* XID -> FIFO
    extensions,           \* extension name -> major opcode
    server_received,      \* requests the server has read off the wire, mod 2^16
    outstanding,          \* server side: reply-bearing requests not yet answered
    wire,                 \* cookies of the requests in the order they hit the wire
    queried,              \* the QueryExtension exchanges so far: name and how each went
    result,               \* what the last send_request_internal, wait or queue read returned
    consumed,             \* bytes the last wait() took from the stream
    header,               \* the 32-byte header the last wait() read
    panicked,             \* the process has panicked
    nsends, nwaits, nruns, \* calls made so far (exploration bounds)
    calls,                \* SpecSeq: calls of next_request_number so far
    pc, tseq, sendlog,    \* SpecConc: per-thread position and sequence, send_packet calls
    tflags,               \* SpecChecked, SpecRoute: per-thread locals of encode_request
                          \* (the request, `flags`) and of process_bytes (`bytes`, pereq)
    xid,                  \* the variant's XID generator
    issued,               \* what the calls of next() returned, in the order they returned
    xthr,                 \* SpecXidConc: per-thread position in next() and its locals
    fut,                  \* SpecAsync: the future of wait_async / send_request_internal_async
    poll                  \* SpecPoll: a packet, its counter and the stream in poll_*_packet

tables == <<pending_requests, pending_errors, pending_replies>>
queues == <<event_queue, special_event_queues>>
server == <<server_received, outstanding, wire, queried>>
counts == <<nsends, nwaits, nruns>>
conc == <<pc, tseq, sendlog, tflags>>
alloc == <<xid, issued, xthr>>
aio == <<fut, poll>>
vars == <<debug_assertions, variant, request_number, checked, tables, queues,
          extensions, server, result, consumed, header, panicked, counts, calls, conc,
          alloc, aio>>

(***************************************************************************)
(* Request types, as the generator hands them to the core.                 *)
(***************************************************************************)
RequestType(ext, opcode, reply, fds, word32) ==
    [EXTENSION |-> ext, OPCODE |-> opcode, REPLY_SIZE |-> reply,
     REPLY_EXPECTS_FDS |-> fds, word32 |-> word32]

GetPropertyRequest == RequestType(None, 20, 32, FALSE, NoWord)
MapWindowRequest == RequestType(None, 8, 0, FALSE, NoWord)
GlxVendorPrivateRequest == RequestType("GLX", 21, 32, FALSE, NoWord)
RequestTypes == {GetPropertyRequest, MapWindowRequest, GlxVendorPrivateRequest}

NoWorkaround == "NoWorkaround"
GlxFbconfigBug == "GlxFbconfigBug"

(***************************************************************************)
(* u32 values as two 16-bit limbs <<high, low>>.                           *)
(***************************************************************************)
U32(hi, lo) == <<hi, lo>>
Zero32 == U32(0, 0)

\* the product of two 16-bit values, as limbs
Mul16(x, y) ==
    LET x1 == x \div 256
        x0 == x % 256
        y1 == y \div 256
        y0 == y % 256
        t == (x1 * y0 + x0 * y1) * 256 + x0 * y0
    IN  U32(x1 * y1 + t \div 65536, t % 65536)

\* u32 * u32: the wrapped product and whether it overflowed
Mul32(a, b) ==
    LET p0 == Mul16(a[2], b[2])
        c1 == Mul16(a[1], b[2])
        c2 == Mul16(a[2], b[1])
        hi == p0[1] + c1[2] + c2[2]
    IN  [value |-> U32(hi % 65536, p0[2]),
         overflow |-> (a[1] * b[1] # 0 \/ c1[1] # 0 \/ c2[1] # 0 \/ hi >= 65536)]

\* bitwise and of two 16-bit values, by halves down to single bits
And16(x, y) ==
    LET And1(a, b) == a * b
        And2(a, b) == And1(a \div 2, b \div 2) * 2 + And1(a % 2, b % 2)
        And4(a, b) == And2(a \div 4, b \div 4) * 4 + And2(a % 4, b % 4)
        And8(a, b) == And4(a \div 16, b \div 16) * 16 + And4(a % 16, b % 16)
    IN  And8(x \div 256, y \div 256) * 256 + And8(x % 256, y % 256)

\* u32 &, |, wrapping_add, wrapping_neg (!a + 1), wrapping_sub, >=
And32(a, b) == U32(And16(a[1], b[1]), And16(a[2], b[2]))
Or32(a, b) ==
    U32(a[1] + b[1] - And16(a[1], b[1]), a[2] + b[2] - And16(a[2], b[2]))
WrappingAdd32(a, b) ==
    U32((a[1] + b[1] + (a[2] + b[2]) \div 65536) % 65536, (a[2] + b[2]) % 65536)
WrappingNeg32(a) == WrappingAdd32(U32(65535 - a[1], 65535 - a[2]), U32(0, 1))
WrappingSub32(a, b) == WrappingAdd32(a, WrappingNeg32(b))
Geq32(a, b) == a[1] > b[1] \/ (a[1] = b[1] /\ a[2] >= b[2])

(***************************************************************************)
(* The XID allocator (xid.rs).                                             *)
(***************************************************************************)
\* XidGenerator{Unsync,Sync}::default(): the generator a variant holds until
\* set_xid_base
XidGeneratorDefault ==
    [last |-> Zero32, max |-> Zero32, inc |-> Zero32, base |-> Zero32, mask |-> Zero32]

\* XidGenerator{Unsync,Sync}::new(base, mask)
XidGeneratorNew(base, mask) ==
    [last |-> Zero32, max |-> Zero32, inc |-> And32(mask, WrappingNeg32(mask)),
     base |-> base, mask |-> mask]

\* eval_in_place
eval_in_place(g) == Or32(g.last, g.base)

\* the test of next() without its wrapping_add(1): last >= max.wrapping_sub(inc)
AtLimitOneEarly(last, max, inc) == Geq32(last, WrappingSub32(max, inc))

\* the test at the head of next(): last >= max.wrapping_sub(inc).wrapping_add(1)
AtLimit(last, max, inc) ==
    Geq32(last, WrappingAdd32(WrappingSub32(max, inc), U32(0, 1)))

\* next(), line 83: Some(self.eval_in_place()) on the generator as updated
Issue(g) == [g |-> g, ret |-> Some(eval_in_place(g)), panic |-> FALSE]

\* XidGeneratorUnsync::next (xid.rs 69-84): the generator afterwards, the
\* Option<XID> returned, and whether assert_eq! panicked
XidGeneratorNext(g) ==
    IF AtLimit(g.last, g.max, g.inc)
    THEN IF g.last # g.max
         THEN [g |-> g, ret |-> << >>, panic |-> TRUE]
         ELSE IF g.last = Zero32
              THEN Issue([g EXCEPT !.max = g.mask, !.last = g.inc])
              ELSE [g |-> g, ret |-> << >>, panic |-> FALSE]
    ELSE Issue([g EXCEPT !.last = WrappingAdd32(g.last, g.inc)])

\* a next() of the thread-safe generator that returns the id made from the
\* values it loaded at its head, not from `last` as it stands after the store
XidGeneratorSyncStale(g) ==
    IF AtLimit(g.last, g.max, g.inc)
    THEN IF g.last # g.max
         THEN [g |-> g, ret |-> << >>, panic |-> TRUE]
         ELSE IF g.last = Zero32
              THEN [g |-> [g EXCEPT !.max = g.mask, !.last = g.inc],
                    ret |-> Some(eval_in_place(g)), panic |-> FALSE]
              ELSE [g |-> g, ret |-> << >>, panic |-> FALSE]
    ELSE [g |-> [g EXCEPT !.last = WrappingAdd32(g.last, g.inc)],
          ret |-> Some(eval_in_place(g)), panic |-> FALSE]

\* XidGeneratorSync::next (xid.rs 115-133) run by one thread with no other
\* thread in it: last and max are loaded once at the head, the test, the
\* assertion and the sum use the loaded values, the stores go to the atomics
\* and eval_in_place loads last again
XidGeneratorSyncNext(g) ==
    LET last == g.last
        max == g.max
    IN  IF AtLimit(last, max, g.inc)
        THEN IF last # max
             THEN [g |-> g, ret |-> << >>, panic |-> TRUE]
             ELSE IF last = Zero32
                  THEN Issue([[g EXCEPT !.max = g.mask] EXCEPT !.last = g.inc])
                  ELSE [g |-> g, ret |-> << >>, panic |-> FALSE]
        ELSE Issue([g EXCEPT !.last = WrappingAdd32(last, g.inc)])

\* generate_xid's self.xid.next() of either variant
XidNext(v, g) == IF v = "unsync" THEN XidGeneratorNext(g) ELSE XidGeneratorSyncNext(g)

(***************************************************************************)
(* Sequence numbers.                                                       *)
(***************************************************************************)
\* u16::wrapping_add
WrappingAdd16(a, b) == (a + b) % SeqModulus

\* next_request_number with an increment that saturates instead of wrapping
SaturatingNextRequestNumber(rn) ==
    [ret |-> rn, next |-> IF rn + 1 < SeqModulus THEN rn + 1 ELSE rn]

\* UnsyncVariant::next_request_number: read the cell, store req.wrapping_add(1)
UnsyncNextRequestNumber(rn) == [ret |-> rn, next |-> WrappingAdd16(rn, 1)]

\* next_request_number as a load followed by a separate store of the
\* successor, the store not yet done when the next caller loads
LoadOnlyNextRequestNumber(rn) == [ret |-> rn, next |-> rn]

\* SyncVariant::next_request_number: AtomicU16::fetch_add(1), which wraps
SyncNextRequestNumber(rn) == [ret |-> rn, next |-> WrappingAdd16(rn, 1)]

NextRequestNumber(v, rn) ==
    IF v = "unsync" THEN UnsyncNextRequestNumber(rn) ELSE SyncNextRequestNumber(rn)

(***************************************************************************)
(* encode_request: the bytes (output.rs 43-80).  A byte vector is kept as  *)
(* its length, the number of leading bytes as_bytes wrote (each Filler),   *)
(* and the bytes written one by one afterwards; every other byte is 0.     *)
(***************************************************************************)
Filler == 7
ByteVec(len, body, patch) == [len |-> len, body |-> body, patch |-> patch, panic |-> FALSE]

\* bytes[i], i counted from 0
ByteAt(b, i) ==
    IF i \in DOMAIN b.patch THEN b.patch[i] ELSE IF i < b.body THEN Filler ELSE 0

\* cycled_zeroes(size)
cycled_zeroes(size) == ByteVec(size, 0, << >>)
\* req.as_bytes(&mut bytes) returning len: the first len bytes are written
as_bytes(b, len) == [b EXCEPT !.body = len]
\* bytes.extend(iter::once(0).cycle().take(n))
extend_zeroes(b, n) == [b EXCEPT !.len = @ + n]
\* bytes[i] = v: panics when i is out of bounds
set_byte(b, i, v) ==
    IF b.panic \/ i >= b.len
    THEN [b EXCEPT !.panic = TRUE]
    ELSE [b EXCEPT !.patch = [k \in (DOMAIN @) \cup {i} |-> IF k = i THEN v ELSE @[k]]]
\* bytes.truncate(len)
truncate(b, len) ==
    IF b.panic \/ len >= b.len THEN b
    ELSE [b EXCEPT !.len = len,
                   !.body = IF @ > len THEN len ELSE @,
                   !.patch = [k \in {j \in DOMAIN @ : j < len} |-> @[k]]]

\* usize::to_ne_bytes()[k] for k = 0, 1 of a value below 2^31: the low bytes
\* on a little-endian target, the top bytes of the word, 0, on a big-endian one
Endians == {"little", "big"}
to_ne_bytes(x, k, endian) == IF endian = "little" THEN (x \div (256 ^ k)) % 256 ELSE 0

\* output.rs 48-56: len after padding to a multiple of four
PaddedLen(len) == IF len % 4 # 0 THEN len + (4 - (len % 4)) ELSE len
pad(b, len) == IF len % 4 # 0 THEN extend_zeroes(b, 4 - (len % 4)) ELSE b

\* output.rs 58-71: the opcode bytes
write_opcode(b, R, ext_opcode) ==
    IF ext_opcode = << >>
    THEN set_byte(b, 0, R.OPCODE)
    ELSE set_byte(set_byte(b, 0, ext_opcode[1]), 1, R.OPCODE)

\* output.rs 73-78: x_len = len / 4 into bytes 2 and 3
write_length(b, len, endian) ==
    set_byte(set_byte(b, 2, to_ne_bytes(len \div 4, 0, endian)),
             3, to_ne_bytes(len \div 4, 1, endian))

\* output.rs 101-105: bytes.get(32..36) as a native-endian u32, none when the
\* packet is shorter.  as_bytes has put the request's word (R.word32) there when
\* it wrote that far and the request has one.
bytes_get_32_36(b, R, endian) ==
    LET v(k) == ByteAt(b, IF endian = "little" THEN 32 + k ELSE 35 - k)
    IN  IF b.len < 36 THEN << >>
        ELSE IF b.body >= 36 /\ R.word32 # NoWord THEN R.word32
        ELSE Some(v(0) + 256 * v(1) + 65536 * v(2) + 16777216 * v(3))

\* output.rs 43-80: the bytes of request R, as_bytes returning len on a buffer
\* of req.size() = size bytes
encode_bytes(R, ext_opcode, len, size, endian) ==
    truncate(write_length(write_opcode(pad(as_bytes(cycled_zeroes(size), len), len),
                                       R, ext_opcode),
                          PaddedLen(len), endian),
             PaddedLen(len))

(***************************************************************************)
(* encode_request: the flags, the sequence number, the pending entry.      *)
(***************************************************************************)
\* the match of output.rs 98-112 without its first column: opcode and word
\* alone decide
WorkaroundAnyExtension(R) ==
    IF (R.OPCODE = 17 /\ R.word32 = Some(GlxMagic)) \/ R.OPCODE = 21
    THEN GlxFbconfigBug
    ELSE NoWorkaround

\* output.rs 98-112: which requests get the GLX FbConfig workaround
Workaround(R) ==
    IF R.EXTENSION = "GLX" /\ ((R.OPCODE = 17 /\ R.word32 = Some(GlxMagic)) \/ R.OPCODE = 21)
    THEN GlxFbconfigBug
    ELSE NoWorkaround

\* flags whose checked bit is the display's checked mode, whatever the size of
\* the reply
FlagsCheckedWithReply(R, discard_reply, chk) ==
    [expects_fds |-> R.REPLY_EXPECTS_FDS,
     discard_reply |-> discard_reply,
     checked |-> chk,
     workaround |-> Workaround(R)]

\* output.rs 84-89
PendingRequestFlags(R, discard_reply, chk) ==
    [expects_fds |-> R.REPLY_EXPECTS_FDS,
     discard_reply |-> discard_reply,
     checked |-> (R.REPLY_SIZE = 0 /\ chk),
     workaround |-> Workaround(R)]

\* The part of the display that a send changes, as one record.
Cur ==
    [rn |-> request_number, reqs |-> pending_requests, reps |-> pending_replies,
     errs |-> pending_errors, ext |-> extensions, recv |-> server_received,
     outs |-> outstanding, qlog |-> queried, panic |-> FALSE]

\* insert_pending_request: HashMap::insert, then the debug-build panic when the
\* key was already there (the new entry has replaced the old one by then)
insert_pending_request(D, seq, flags) ==
    [D EXCEPT !.reqs = MapInsert(@, seq, flags),
              !.panic = (seq \in DOMAIN D.reqs /\ debug_assertions)]

\* expect_reply (input.rs 127-133)
expect_reply(D, seq, flags) == insert_pending_request(D, seq, flags)

\* output.rs 114-119
encode_request(D, R, discard_reply) ==
    LET flags == PendingRequestFlags(R, discard_reply, checked)
        n == NextRequestNumber(variant, D.rn)
        D1 == [D EXCEPT !.rn = n.next]
    IN  [sequence |-> n.ret,
         D |-> IF R.REPLY_SIZE # 0 \/ checked THEN expect_reply(D1, n.ret, flags) ELSE D1]

\* Connection::send_packet: on success the request is on the wire and the server
\* counts it; on failure it is not.
send_packet(D, sequence, R, ok) ==
    IF ok
    THEN [D EXCEPT !.recv = WrappingAdd16(@, 1),
                   !.outs = IF R.REPLY_SIZE # 0
                            THEN @ \cup {[sseq |-> D.recv, cookie |-> sequence]}
                            ELSE @]
    ELSE D

\* the bytes of a send_packet call reach the wire as that call writes them
put_on_wire(w, sequence, ok) == IF ok THEN Append(w, sequence) ELSE w

QueryExtensionRequest == RequestType(None, 98, 32, FALSE, NoWord)
\* one QueryExtension exchange, as logged
Exchange(name, outcome) == [name |-> name, outcome |-> outcome]
ExtensionOpcode(name) == IF name = "GLX" THEN 152 ELSE 133

\* query_extension_immediate(name), once the QueryExtension request is encoded
\* (E is what encode_request returned): send it and block for its reply, which
\* is routed and retrieved.  outcome: "present", "absent", "io" (the send
\* failed) or "lost" (the request was sent, reading the reply failed).
query_extension_reply(E, name, outcome) ==
    IF E.D.panic
    THEN [ok |-> FALSE, D |-> E.D]
    ELSE IF outcome = "io"
    THEN [ok |-> FALSE, D |-> [E.D EXCEPT !.qlog = Append(@, Exchange(name, outcome))]]
    ELSE IF outcome = "lost"
    THEN [ok |-> FALSE,
          D |-> [send_packet(E.D, E.sequence, QueryExtensionRequest, TRUE)
                     EXCEPT !.qlog = Append(@, Exchange(name, outcome))]]
    ELSE [ok |-> (outcome = "present"
                    /\ ~(E.sequence \in DOMAIN E.D.reps /\ debug_assertions)),
          D |-> [send_packet(E.D, E.sequence, QueryExtensionRequest, TRUE)
                     EXCEPT !.outs = E.D.outs,
                            !.reqs = MapRemove(@, E.sequence),
                            !.reps = MapRemove(@, E.sequence),
                            !.qlog = Append(@, Exchange(name, outcome)),
                            !.panic = (E.sequence \in DOMAIN E.D.reps /\ debug_assertions)]]

query_extension_immediate(D, name, outcome) ==
    query_extension_reply(encode_request(D, QueryExtensionRequest, FALSE), name, outcome)

\* get_ext_opcode, the cache having missed (Q is what query_extension_immediate
\* returned): map_err, then insert_ext_opcode
cache_ext_opcode(Q, extname) ==
    IF Q.ok
    THEN [ok |-> TRUE, code |-> ExtensionOpcode(extname),
          D |-> [Q.D EXCEPT !.ext = MapInsert(@, extname, ExtensionOpcode(extname))]]
    ELSE [ok |-> FALSE, code |-> 0, D |-> Q.D]

\* get_ext_opcode (output.rs 151-164)
get_ext_opcode(D, extname, outcome) ==
    IF extname \in DOMAIN D.ext
    THEN [ok |-> TRUE, code |-> D.ext[extname], D |-> D]
    ELSE cache_ext_opcode(query_extension_immediate(D, extname, outcome), extname)

Res(op, kind, seq) == [op |-> op, kind |-> kind, seq |-> seq]

\* a send that takes the pending-request entry back out when send_packet fails
send_rolled_back(E, R, ok) ==
    IF E.D.panic THEN [D |-> E.D, result |-> Res("send", "Panic", E.sequence)]
    ELSE IF ~ok THEN [D |-> [E.D EXCEPT !.reqs = MapRemove(@, E.sequence)],
                      result |-> Res("send", "Io", E.sequence)]
    ELSE [D |-> send_packet(E.D, E.sequence, R, TRUE),
          result |-> Res("send", "Ok", E.sequence)]

\* send_request_internal, line 145: send_packet on the encoded request (E is
\* what encode_request returned)
send_encoded(E, R, ok) ==
    IF E.D.panic THEN [D |-> E.D, result |-> Res("send", "Panic", E.sequence)]
    ELSE IF ~ok THEN [D |-> E.D, result |-> Res("send", "Io", E.sequence)]
    ELSE [D |-> send_packet(E.D, E.sequence, R, TRUE),
          result |-> Res("send", "Ok", E.sequence)]

\* send_request_internal, lines 135-145, the extension opcode looked up (X)
send_with_opcode(X, R, discard_reply, ok) ==
    IF X.D.panic THEN [D |-> X.D, result |-> Res("send", "Panic", 0)]
    ELSE IF ~X.ok THEN [D |-> X.D, result |-> Res("send", "ExtensionNotPresent", 0)]
    ELSE send_encoded(encode_request(X.D, R, discard_reply), R, ok)

\* send_request_internal (output.rs 125-147); advance_request_number is empty
send_request_internal(D, R, discard_reply, ok, outcome) ==
    send_with_opcode(IF R.EXTENSION = None
                     THEN [ok |-> TRUE, code |-> 0, D |-> D]
                     ELSE get_ext_opcode(D, R.EXTENSION, outcome),
                     R, discard_reply, ok)

Commit(D) ==
    /\ request_number' = D.rn
    /\ pending_requests' = D.reqs
    /\ pending_replies' = D.reps
    /\ pending_errors' = D.errs
    /\ extensions' = D.ext
    /\ server_received' = D.recv
    /\ outstanding' = D.outs
    /\ queried' = D.qlog
    /\ panicked' = D.panic

(***************************************************************************)
(* Inbound messages.  A 32-byte header is kept as the fields the code      *)
(* reads: byte 0, the u16 at 2..4, the u32 words at 4..8, 8..12 and        *)
(* 12..16, and whether any other byte is non-zero.                         *)
(***************************************************************************)
Frame(b0, seq, len, w8, w12, other) ==
    [b0 |-> b0, seq |-> seq, len |-> len, w8 |-> w8, w12 |-> w12, other |-> other]

XidA == U32(57005, 48879)
XidB == U32(0, 7)
Xids == {XidA, XidB}
KeyPress == 2
One32 == U32(0, 1)
Big32 == U32(1, 0)

\* the sequence numbers worth putting in a header: those the display or the
\* server knows, and one nobody has issued
Unissued == 999
Seqs ==
    (DOMAIN pending_requests) \cup (DOMAIN pending_replies) \cup (DOMAIN pending_errors)
        \cup {o.sseq : o \in outstanding} \cup {Unissued}

\* replies: the length word and the two words the GLX workaround multiplies
ReplyWords == {<<One32, One32, One32>>, <<Zero32, Big32, Big32>>}
ReplyFrames == {Frame(TYPE_REPLY, s, w[1], w[2], w[3], 0) : s \in Seqs, w \in ReplyWords}
\* errors: byte 1 (the error code) is non-zero, or every byte is zero
ZeroFrame == Frame(TYPE_ERROR, 0, Zero32, Zero32, Zero32, 0)
ErrorFrames == {Frame(TYPE_ERROR, s, Zero32, Zero32, Zero32, 1) : s \in Seqs} \cup {ZeroFrame}
\* events: a core event, and generic events with and without the top
\* ("synthetic") bit of byte 0, for each resource id
EventFrames ==
    {Frame(KeyPress, 0, One32, Zero32, XidA, 0)}
        \cup {Frame(GENERIC_EVENT, 0, Zero32, Zero32, x, 0) : x \in Xids}
        \cup {Frame(GENERIC_EVENT + GE_MASK + 1, 0, One32, Zero32, x, 0) : x \in Xids}
XgeFrame == Frame(GENERIC_EVENT + GE_MASK + 1, 0, One32, Zero32, XidB, 0)
Frames == ReplyFrames \cup ErrorFrames \cup {XgeFrame}

\* the zero test looking at every byte but the two of the sequence number,
\* and taking a frame for a closed connection only when those are set
AllZeroButSequence(f) ==
    f.b0 = 0 /\ f.seq # 0 /\ f.len = Zero32 /\ f.w8 = Zero32 /\ f.w12 = Zero32 /\ f.other = 0

\* bytes.iter().copied().any(|x| x != 0) is false
AllZero(f) ==
    f.b0 = 0 /\ f.seq = 0 /\ f.len = Zero32 /\ f.w8 = Zero32 /\ f.w12 = Zero32 /\ f.other = 0

\* bytes[0] & GE_MASK, GE_MASK being the low seven bits
Mask7F(b) == b % (GE_MASK + 1)

\* The tables and queues that wait() works on, as one record.
Tables ==
    [reqs |-> pending_requests, reps |-> pending_replies, errs |-> pending_errors,
     evq |-> event_queue, spq |-> special_event_queues]

get_pending_request(T, sequence) ==
    IF sequence \in DOMAIN T.reqs
    THEN [some |-> TRUE, flags |-> T.reqs[sequence]]
    ELSE [some |-> FALSE, flags |-> PendingRequestFlags(MapWindowRequest, FALSE, FALSE)]

\* x * 2 for a u32 product x, overflow carried along
Times2(x) ==
    [value |-> Mul32(x.value, U32(0, 2)).value,
     overflow |-> (x.overflow \/ x.value[1] >= 32768)]

\* visuals * props * 2 (input.rs 117)
GlxLength(visuals, props) == Times2(Mul32(visuals, props))

\* input.rs 117-118: a debug build panics when the product overflows, a
\* release build wraps; the product goes into bytes 4..8
patch_length(f, length) ==
    IF debug_assertions /\ length.overflow
    THEN [kind |-> "Panic", bytes |-> f]
    ELSE [kind |-> "Ok", bytes |-> [f EXCEPT !.len = length.value]]

\* fix_glx_workaround (input.rs 96-123)
fix_glx_workaround(T, f) ==
    IF f.b0 # TYPE_REPLY
    THEN [kind |-> "Ok", bytes |-> f]
    ELSE IF f.seq \notin DOMAIN T.reqs
    THEN [kind |-> "NoMatchingRequest", bytes |-> f]
    ELSE IF get_pending_request(T, f.seq).flags.workaround = GlxFbconfigBug
    THEN patch_length(f, GlxLength(f.w8, f.w12))
    ELSE [kind |-> "Ok", bytes |-> f]

\* additional_bytes (input.rs 211-220)
additional_bytes(f) ==
    IF f.b0 = TYPE_REPLY \/ Mask7F(f.b0) = GENERIC_EVENT
    THEN [some |-> TRUE, ab |-> f.len]
    ELSE [some |-> FALSE, ab |-> Zero32]

\* try_queue_special_event: push_back on the queue registered for eid and
\* Ok(eid), or Err(event) with the event handed back (back)
try_queue_special_event(spq, event, eid) ==
    IF eid \in DOMAIN spq
    THEN [ok |-> TRUE, spq |-> [spq EXCEPT ![eid] = Append(@, event)], back |-> << >>]
    ELSE [ok |-> FALSE, spq |-> spq, back |-> <<event>>]

\* Event::from_bytes: the undifferentiated event, the 32 bytes and the units
\* of extension payload read after them; Event::as_byte_slice: its raw bytes
event_from_bytes(bytes, extra) == [raw |-> bytes, extra |-> extra]
as_byte_slice(event) == Some(event.raw)

\* filter_into_special_event comparing byte 0 with GENERIC_EVENT without
\* masking the top bit off
filter_unmasked(spq, event) ==
    IF as_byte_slice(event)[1].b0 # GENERIC_EVENT
    THEN [ok |-> FALSE, spq |-> spq, back |-> <<event>>]
    ELSE try_queue_special_event(spq, event, as_byte_slice(event)[1].w12)

\* filter_into_special_event (input.rs 136-153)
filter_into_special_event(spq, event) ==
    IF Mask7F(as_byte_slice(event)[1].b0) # GENERIC_EVENT
    THEN [ok |-> FALSE, spq |-> spq, back |-> <<event>>]
    ELSE try_queue_special_event(spq, event, as_byte_slice(event)[1].w12)

\* queue_event: push_back on the main queue
queue_event(evq, event) == Append(evq, event)

\* a pop that takes the newest element instead of the oldest
pop_back(q) ==
    IF q = << >> THEN [ret |-> << >>, rest |-> q]
    ELSE [ret |-> <<q[Len(q)]>>, rest |-> SubSeq(q, 1, Len(q) - 1)]

\* VecDeque::pop_front / ConcurrentQueue::pop: the oldest element, if any
pop_front(q) ==
    IF q = << >> THEN [ret |-> << >>, rest |-> q]
    ELSE [ret |-> <<Head(q)>>, rest |-> Tail(q)]

\* insert_pending_reply / insert_pending_error: the insert; the debug-build
\* panic that follows it when the key was there is Collides
insert_pending_reply(reps, sequence, reply) == MapInsert(reps, sequence, reply)
insert_pending_error(errs, sequence, err) == MapInsert(errs, sequence, err)
Collides(m, sequence) == sequence \in DOMAIN m /\ debug_assertions
\* a lookup that leaves the entry in the table
keep_pending_request(reqs, sequence) == reqs

remove_pending_request(reqs, sequence) == MapRemove(reqs, sequence)

\* What a call on the tables returns and leaves behind.
Outcome(kind, seq, T, panic) == [kind |-> kind, seq |-> seq, T |-> T, panic |-> panic]

\* process_bytes (input.rs 31-91).  bytes: the header after the workaround;
\* extra: the 4-byte units read after it; origin: the cookie of the request
\* the server was answering (NoOrigin when it was answering none).
process_bytes(T, bytes, extra, origin) ==
    LET sequence == bytes.seq
        pereq == get_pending_request(T, sequence)
        removed == [T EXCEPT !.reqs = remove_pending_request(@, sequence)]
    IN
    IF bytes.b0 = TYPE_REPLY
    THEN IF ~pereq.some
         THEN Outcome("NoMatchingRequest", sequence, T, FALSE)
         ELSE IF pereq.flags.discard_reply
              THEN Outcome("Ok", sequence, removed, FALSE)
              ELSE Outcome("Ok", sequence,
                           [removed EXCEPT !.reps = insert_pending_reply(@, sequence,
                               [bytes |-> bytes, extra |-> extra, answers |-> origin])],
                           Collides(T.reps, sequence))
    ELSE IF bytes.b0 = TYPE_ERROR
    THEN IF AllZero(bytes)
         THEN Outcome("ClosedConnection", sequence, T, FALSE)
         ELSE IF pereq.some
              THEN Outcome("Ok", sequence,
                           [removed EXCEPT !.errs = insert_pending_error(@, sequence, bytes)],
                           Collides(T.errs, sequence))
              ELSE Outcome("XError", sequence, T, FALSE)
    ELSE LET F == filter_into_special_event(T.spq, event_from_bytes(bytes, extra))
         IN  Outcome("Ok", sequence,
                     [T EXCEPT !.evq = IF F.ok THEN @ ELSE queue_event(@, F.back[1]),
                               !.spq = F.spq],
                     FALSE)

\* bytes taken from the stream: the header bytes, and the 4-byte units after it
Consumed(hdr, units) == [header |-> hdr, units |-> units]

Returns(kind, seq, T, panic, hdr, units) ==
    [out |-> Outcome(kind, seq, T, panic), consumed |-> Consumed(hdr, units)]

\* wait, line 179: what process_bytes returned (P) is what wait returns
wait_dispatch(P, extra) ==
    Returns(IF P.panic THEN "Panic" ELSE P.kind, P.seq, P.T, P.panic, 32, extra)

\* wait, lines 169-177: read ab * 4 more bytes when ab is there and not 0
wait_read_payload(T, bytes, ab, origin, io) ==
    IF io = "fail2" /\ ab # Zero32
    THEN Returns("Io", 0, T, FALSE, 32, Zero32)
    ELSE wait_dispatch(process_bytes(T, bytes, ab, origin), ab)

\* wait, line 166: self.fix_glx_workaround(&mut bytes)?  (G is what it returned)
wait_after_workaround(T, G, origin, io) ==
    IF G.kind # "Ok"
    THEN Returns(G.kind, G.bytes.seq, T, G.kind = "Panic", 32, Zero32)
    ELSE wait_read_payload(T, G.bytes, additional_bytes(G.bytes).ab, origin, io)

\* wait() (input.rs 159-180) on the message with header f.
\* io: "ok", "fail1" (the header read fails), "fail2" (the payload read fails)
wait(T, f, origin, io) ==
    IF io = "fail1"
    THEN Returns("Io", 0, T, FALSE, 0, Zero32)
    ELSE wait_after_workaround(T, fix_glx_workaround(T, f), origin, io)

\* whether wait() reads a payload after the header: G is what
\* fix_glx_workaround returned
PayloadFollows(G) == G.kind = "Ok" /\ additional_bytes(G.bytes).ab # Zero32
ReadsPayload(T, f) == PayloadFollows(fix_glx_workaround(T, f))

\* the server echoes in a reply or error the number it gave the request
Answered(f) ==
    IF f.b0 \in {TYPE_REPLY, TYPE_ERROR} THEN {o \in outstanding : o.sseq = f.seq} ELSE {}
Origins(f) == IF Answered(f) = {} THEN {NoOrigin} ELSE {Some(o.cookie) : o \in Answered(f)}

SpecialQueueLen(x) ==
    IF x \in DOMAIN special_event_queues THEN Len(special_event_queues[x]) ELSE 0
QueuedEvents == Len(event_queue) + SpecialQueueLen(XidA) + SpecialQueueLen(XidB)

(***************************************************************************)
(* The display after Display::new / DisplayVariant::new.                   *)
(***************************************************************************)
Threads == 1..NumThreads
\* a thread outside next()
XidIdle == [pc |-> "idle", last |-> Zero32, max |-> Zero32]
QueryOutcomes == {"present", "absent", "io", "lost"}
Variants == {"unsync", "sync"}
\* header: empty until a wait() has read one, then <<the header>>
NoFrame == << >>
\* a thread outside encode_request and process_bytes
NoFlags ==
    [R |-> MapWindowRequest, flags |-> PendingRequestFlags(MapWindowRequest, FALSE, FALSE),
     bytes |-> << >>]
\* no future of the display is alive
NoFuture ==
    [op |-> "none", pc |-> "idle", bomb |-> FALSE, bytes |-> << >>, origin |-> << >>,
     req |-> << >>]
\* no packet is being sent or read
NoPoll ==
    [op |-> "none", state |-> "idle", packet |-> << >>, counter |-> 0, stream |-> << >>,
     polls |-> 0]


\* what pop_event / get_special_event returned: Option<Event> as ret, and
\* the queue that was asked (<< >>: the main queue)
Popped(op, eid, ret) ==
    [op |-> op, kind |-> IF ret = << >> THEN "None" ELSE "Some", seq |-> 0,
     eid |-> eid, event |-> ret]

\* a call that returns () leaves nothing to look at
Unit == Res("call", "Ok", 0)
Returned(r) ==
    /\ result' = r
    /\ header' = NoFrame
    /\ consumed' = Consumed(0, Zero32)

Init ==
    /\ debug_assertions \in BOOLEAN
    /\ variant \in Variants
    /\ request_number = 0
    /\ checked = TRUE
    /\ pending_requests = EmptyMap
    /\ pending_errors = EmptyMap
    /\ pending_replies = EmptyMap
    /\ event_queue = << >>
    /\ special_event_queues = EmptyMap
    /\ extensions = EmptyMap
    /\ server_received = 0
    /\ outstanding = {}
    /\ wire = << >>
    /\ queried = << >>
    /\ result = Res("new", "Ok", 0)
    /\ consumed = Consumed(0, Zero32)
    /\ header = NoFrame
    /\ panicked = FALSE
    /\ nsends = 0 /\ nwaits = 0 /\ nruns = 0
    /\ calls = 0
    /\ pc = [t \in Threads |-> "idle"]
    /\ tseq = [t \in Threads |-> 0]
    /\ sendlog = << >>
    /\ tflags = [t \in Threads |-> NoFlags]
    /\ xid = XidGeneratorDefault
    /\ issued = << >>
    /\ xthr = [t \in Threads |-> XidIdle]
    /\ fut = NoFuture
    /\ poll = NoPoll

(***************************************************************************)
(* Spec: one caller, whole calls.                                          *)
(***************************************************************************)
\* send_request_internal(req, discard_reply)
SendRequest(R, discard_reply, ok, outcome) ==
    /\ ~panicked
    /\ discard_reply => R.REPLY_SIZE # 0
    /\ outcome # "present" => (R.EXTENSION # None /\ R.EXTENSION \notin DOMAIN extensions)
    /\ \E out \in {send_request_internal(Cur, R, discard_reply, ok, outcome)} :
           /\ Commit(out.D)
           /\ result' = out.result
    /\ nsends' = nsends + 1
    /\ header' = NoFrame
    /\ consumed' = Consumed(0, Zero32)
    /\ UNCHANGED <<debug_assertions, variant, checked, queues, wire,  nwaits, nruns, calls, conc, alloc, aio>>

\* n calls of send_request_internal in a row for a request without a reply
\* while the display is unchecked, every send succeeding: each call takes the
\* next sequence number, records nothing and puts one request on the wire.
RunLengths == {SeqModulus - 1}

SendRun(n) ==
    /\ ~panicked
    /\ ~checked
    /\ nruns < MaxRuns
    /\ request_number' = WrappingAdd16(request_number, n)
    /\ server_received' = WrappingAdd16(server_received, n)
    /\ result' = Res("send", "Ok", WrappingAdd16(request_number, n - 1))
    /\ nruns' = nruns + 1
    /\ header' = NoFrame
    /\ consumed' = Consumed(0, Zero32)
    /\ UNCHANGED <<debug_assertions, variant, checked, tables, queues, extensions,
                   outstanding, wire, queried, panicked, nsends, nwaits, calls, conc, alloc, aio>>

\* one call of wait(), the server having put the message with header f on the
\* stream
Wait(f, origin, io) ==
    /\ ~panicked
    /\ io = "fail1" => f = ZeroFrame
    /\ io = "fail2" => ReadsPayload(Tables, f)
    /\ \E W \in {wait(Tables, f, origin, io)} :
           /\ pending_requests' = W.out.T.reqs
           /\ pending_replies' = W.out.T.reps
           /\ pending_errors' = W.out.T.errs
           /\ event_queue' = W.out.T.evq
           /\ special_event_queues' = W.out.T.spq
           /\ panicked' = W.out.panic
           /\ result' = Res("wait", W.out.kind, W.out.seq)
           /\ consumed' = W.consumed
    /\ header' = IF io = "fail1" THEN NoFrame ELSE <<f>>
    /\ outstanding' = IF io = "fail1" THEN outstanding
                      ELSE {o \in outstanding : ~(o.sseq = f.seq /\ Some(o.cookie) = origin)}
    /\ nwaits' = nwaits + 1
    /\ UNCHANGED <<debug_assertions, variant, request_number, checked, extensions,
                   server_received, wire, queried, nsends, nruns, calls, conc, alloc, aio>>

\* set_checked(c)
SetChecked(c) ==
    /\ ~panicked
    /\ checked # c
    /\ checked' = c
    /\ pending_requests' = IF ~c THEN RetainUnchecked(pending_requests)
                                 ELSE pending_requests
    /\ Returned(Unit)
    /\ UNCHANGED <<debug_assertions, variant, request_number, pending_errors,
                   pending_replies, queues, extensions, server, panicked,
                   counts, calls, conc, alloc, aio>>

\* retrieve_pending_reply(sequence)
RetrievePendingReply(sequence) ==
    /\ ~panicked
    /\ sequence \in DOMAIN pending_replies
    /\ pending_replies' = MapRemove(pending_replies, sequence)
    /\ Returned(Unit)
    /\ UNCHANGED <<debug_assertions, variant, request_number, checked, pending_requests,
                   pending_errors, queues, extensions, server, panicked,
                   counts, calls, conc, alloc, aio>>

\* retrieve_pending_error(sequence)
RetrievePendingError(sequence) ==
    /\ ~panicked
    /\ sequence \in DOMAIN pending_errors
    /\ pending_errors' = MapRemove(pending_errors, sequence)
    /\ Returned(Unit)
    /\ UNCHANGED <<debug_assertions, variant, request_number, checked, pending_requests,
                   pending_replies, queues, extensions, server, panicked,
                   counts, calls, conc, alloc, aio>>

\* what register_special_event / unregister_special_event did: HashMap::insert
\* and HashMap::remove hand back the queue that was registered for eid (old:
\* << >> when there was none), and the call drops it
Replaced(op, eid, spq) ==
    [op |-> op, kind |-> "Ok", seq |-> 0, eid |-> eid,
     old |-> IF eid \in DOMAIN spq THEN <<spq[eid]>> ELSE << >>]

\* a register_special_event that leaves a queue already registered as it is
RegisterKeepingQueue(eid) ==
    /\ ~panicked
    /\ special_event_queues' = IF eid \in DOMAIN special_event_queues
                               THEN special_event_queues
                               ELSE MapInsert(special_event_queues, eid, << >>)
    /\ Returned(Replaced("register_special_event", eid, special_event_queues))
    /\ UNCHANGED <<debug_assertions, variant, request_number, checked, tables,
                   event_queue, extensions, server, panicked, counts,
                   calls, conc, alloc, aio>>


\* register_special_event(eid)
RegisterSpecialEvent(eid) ==
    /\ ~panicked
    /\ special_event_queues' = MapInsert(special_event_queues, eid, << >>)
    /\ Returned(Replaced("register_special_event", eid, special_event_queues))
    /\ UNCHANGED <<debug_assertions, variant, request_number, checked, tables,
                   event_queue, extensions, server, panicked, counts,
                   calls, conc, alloc, aio>>

\* unregister_special_event(eid)
UnregisterSpecialEvent(eid) ==
    /\ ~panicked
    /\ special_event_queues' = MapRemove(special_event_queues, eid)
    /\ Returned(Replaced("unregister_special_event", eid, special_event_queues))
    /\ UNCHANGED <<debug_assertions, variant, request_number, checked, tables,
                   event_queue, extensions, server, panicked, counts,
                   calls, conc, alloc, aio>>

\* pop_event()
PopEvent ==
    /\ ~panicked
    /\ event_queue' = pop_front(event_queue).rest
    /\ result' = Popped("pop_event", << >>, pop_front(event_queue).ret)
    /\ header' = NoFrame
    /\ consumed' = Consumed(0, Zero32)
    /\ UNCHANGED <<debug_assertions, variant, request_number, checked, tables,
                   special_event_queues, extensions, server,  panicked,
                   counts, calls, conc, alloc, aio>>

\* get_special_event(eid): get_mut(&eid).unwrap().pop_front()
GetSpecialEvent(eid) ==
    /\ ~panicked
    /\ IF eid \notin DOMAIN special_event_queues
       THEN /\ panicked' = TRUE
            /\ result' = [Popped("get_special_event", Some(eid), << >>)
                              EXCEPT !.kind = "Panic"]
            /\ UNCHANGED special_event_queues
       ELSE /\ panicked' = FALSE
            /\ result' = Popped("get_special_event", Some(eid),
                                pop_front(special_event_queues[eid]).ret)
            /\ special_event_queues' =
                   [special_event_queues EXCEPT ![eid] = pop_front(@).rest]
    /\ header' = NoFrame
    /\ consumed' = Consumed(0, Zero32)
    /\ UNCHANGED <<debug_assertions, variant, request_number, checked, tables,
                   event_queue, extensions, server,  counts, calls, conc, alloc, aio>>

Next ==
    \/ /\ nsends < MaxSends
       /\ \E R \in RequestTypes, d \in BOOLEAN, ok \in BOOLEAN :
             SendRequest(R, d, ok, "present")
    \/ \E n \in RunLengths : SendRun(n)
    \/ /\ nwaits < MaxWaits
       /\ \E f \in Frames, io \in {"ok", "fail1", "fail2"} :
             /\ f.b0 \notin {TYPE_REPLY, TYPE_ERROR} => QueuedEvents < MaxQueue
             /\ \E origin \in Origins(f) : Wait(f, origin, io)
    \/ \E c \in BOOLEAN : SetChecked(c)
    \/ \E s \in DOMAIN pending_replies : RetrievePendingReply(s)
    \/ \E s \in DOMAIN pending_errors : RetrievePendingError(s)

\* a Display<_, UnsyncVariant> after Display::new
InitUnsync == Init /\ variant = "unsync"

Spec == InitUnsync /\ [][Next]_vars

(***************************************************************************)
(* SpecWrap: requests with a reply only, every send succeeding, the        *)
(* replies well-formed; long enough for a sequence number to be issued     *)
(* twice with two requests outstanding.                                    *)
(***************************************************************************)
PlainReplyFrames == {Frame(TYPE_REPLY, s, One32, One32, One32, 0) : s \in Seqs}

NextWrap ==
    \/ /\ nsends < MaxWrapSends
       /\ SendRequest(GetPropertyRequest, FALSE, TRUE, "present")
    \/ \E n \in RunLengths : SendRun(n)
    \/ /\ nwaits < MaxWaits
       /\ \E f \in PlainReplyFrames : \E origin \in Origins(f) : Wait(f, origin, "ok")
    \/ \E c \in BOOLEAN : SetChecked(c)
    \/ \E s \in DOMAIN pending_replies : RetrievePendingReply(s)

SpecWrap == InitUnsync /\ [][NextWrap]_vars

(***************************************************************************)
(* SpecEvents: the event queues alone.                                     *)
(***************************************************************************)
NextEvents ==
    \/ /\ nwaits < MaxEventWaits
       /\ QueuedEvents < MaxEvents
       /\ \E f \in EventFrames : Wait(f, NoOrigin, "ok")
    \/ \E x \in Xids : RegisterSpecialEvent(x)
    \/ \E x \in Xids : UnregisterSpecialEvent(x)
    \/ PopEvent
    \/ \E x \in Xids : GetSpecialEvent(x)

\* either variant after DisplayVariant::new; the build does not matter here
InitEvents == Init /\ debug_assertions = TRUE

SpecEvents == InitEvents /\ [][NextEvents]_vars

(***************************************************************************)
(* SpecSeq: next_request_number called over and over on a fresh variant.   *)
(***************************************************************************)
CallNextRequestNumber ==
    /\ calls < SeqModulus + MaxCalls
    /\ LET n == NextRequestNumber(variant, request_number)
       IN  /\ request_number' = n.next
           /\ result' = Res("next_request_number", "Ok", n.ret)
    /\ calls' = calls + 1
    /\ UNCHANGED <<debug_assertions, variant, checked, tables, queues, extensions, server,
                   consumed, header, panicked, counts, conc, alloc, aio>>

NextSeq == CallNextRequestNumber

\* either variant after DisplayVariant::new; the build does not matter here
InitSeq == Init /\ debug_assertions = TRUE

SpecSeq == InitSeq /\ [][NextSeq]_vars

(***************************************************************************)
(* SpecConc: threads of one Display<_, SyncVariant>, each in               *)
(* send_request_internal for a GetProperty request.  A step is one atomic  *)
(* operation of the variant or one send_packet.                            *)
(***************************************************************************)
\* encode_request, line 114: self.variant.next_request_number()
TakeNumber(t) ==
    /\ pc[t] = "idle"
    /\ nsends < MaxSends
    /\ LET n == NextRequestNumber(variant, request_number)
       IN  /\ request_number' = n.next
           /\ tseq' = [tseq EXCEPT ![t] = n.ret]
    /\ pc' = [pc EXCEPT ![t] = "numbered"]
    /\ nsends' = nsends + 1
    /\ UNCHANGED <<debug_assertions, variant, checked, tables, queues, extensions, server,
                   result, consumed, header, panicked, nwaits, nruns, calls, sendlog, tflags,
                   alloc, aio>>

\* encode_request, lines 115-117: expect_reply(sequence, flags)
RecordPending(t) ==
    /\ pc[t] = "numbered"
    /\ \E D \in {expect_reply(Cur, tseq[t],
                                PendingRequestFlags(GetPropertyRequest, FALSE, checked))} :
           /\ pending_requests' = D.reqs
           /\ panicked' = (panicked \/ D.panic)
    /\ pc' = [pc EXCEPT ![t] = "encoded"]
    /\ UNCHANGED <<debug_assertions, variant, request_number, checked, pending_errors,
                   pending_replies, queues, extensions, server, result, consumed, header,
                   counts, calls, tseq, sendlog, tflags, alloc, aio>>

\* send_request_internal, line 145: send_packet(&bytes, fds); the transport is
\* held for the whole write
SendPacket(t, ok) ==
    /\ pc[t] = "encoded"
    /\ sendlog' = Append(sendlog, [thread |-> t, cookie |-> tseq[t], ok |-> ok])
    /\ wire' = put_on_wire(wire, tseq[t], ok)
    /\ server_received' = IF ok THEN WrappingAdd16(server_received, 1) ELSE server_received
    /\ outstanding' = IF ok THEN outstanding \cup {[sseq |-> server_received, cookie |-> tseq[t]]}
                      ELSE outstanding
    /\ pc' = [pc EXCEPT ![t] = "idle"]
    /\ UNCHANGED <<debug_assertions, variant, request_number, checked, tables, queues,
                   extensions, queried, result, consumed, header, panicked, counts, calls,
                   tseq, tflags, alloc, aio>>

NextConc ==
    \/ \E t \in Threads : TakeNumber(t)
    \/ \E t \in Threads : RecordPending(t)
    \/ \E t \in Threads, ok \in BOOLEAN : SendPacket(t, ok)

\* a Display<_, SyncVariant> after Display::new
InitSync == Init /\ variant = "sync"

SpecConc == InitSync /\ [][NextConc]_vars

(***************************************************************************)
(* SpecChecked: threads of one Display<_, SyncVariant> in                  *)
(* send_request_internal and in set_checked.  A step is one atomic         *)
(* operation of the variant (a load or store of `checked`, the fetch_add   *)
(* of the request number, one DashMap call) or one send_packet; every send *)
(* succeeds and nobody reads replies.                                      *)
(***************************************************************************)
CheckedRequestTypes == {MapWindowRequest, GetPropertyRequest}

\* thread frame of SpecChecked
CheckedFrame ==
    UNCHANGED <<debug_assertions, variant, pending_errors, pending_replies, queues,
                extensions, wire, queried, result, consumed, header, nwaits, nruns, calls,
                sendlog, alloc, aio>>

\* encode_request, lines 84-89: flags built, self.variant.checked() loaded
BuildFlags(t, R) ==
    /\ ~panicked
    /\ pc[t] = "idle"
    /\ nsends < MaxSends
    /\ tflags' = [tflags EXCEPT ![t].R = R,
                                ![t].flags = PendingRequestFlags(R, FALSE, checked)]
    /\ pc' = [pc EXCEPT ![t] = "flags"]
    /\ nsends' = nsends + 1
    /\ UNCHANGED <<request_number, checked, pending_requests, server_received, outstanding,
                   panicked, tseq>>
    /\ CheckedFrame

\* encode_request, line 114: self.variant.next_request_number()
NumberRequest(t) ==
    /\ ~panicked
    /\ pc[t] = "flags"
    /\ \E n \in {NextRequestNumber(variant, request_number)} :
           /\ request_number' = n.next
           /\ tseq' = [tseq EXCEPT ![t] = n.ret]
    /\ pc' = [pc EXCEPT ![t] = "numbered"]
    /\ UNCHANGED <<checked, pending_requests, server_received, outstanding, panicked, nsends,
                   tflags>>
    /\ CheckedFrame

\* encode_request, line 115: size_of::<R::Reply>() != 0 || self.variant.checked(),
\* the second load of `checked`
TestChecked(t) ==
    /\ ~panicked
    /\ pc[t] = "numbered"
    /\ pc' = [pc EXCEPT ![t] = IF tflags[t].R.REPLY_SIZE # 0 \/ checked
                               THEN "inserting" ELSE "encoded"]
    /\ UNCHANGED <<request_number, checked, pending_requests, server_received, outstanding,
                   panicked, nsends, tseq, tflags>>
    /\ CheckedFrame

\* encode_request, line 116: expect_reply(sequence, flags)
InsertPending(t) ==
    /\ ~panicked
    /\ pc[t] = "inserting"
    /\ \E D \in {expect_reply(Cur, tseq[t], tflags[t].flags)} :
           /\ pending_requests' = D.reqs
           /\ panicked' = D.panic
    /\ pc' = [pc EXCEPT ![t] = "encoded"]
    /\ UNCHANGED <<request_number, checked, server_received, outstanding, nsends, tseq, tflags>>
    /\ CheckedFrame

\* send_request_internal, line 145: send_packet, which succeeds
FinishSend(t) ==
    /\ ~panicked
    /\ pc[t] = "encoded"
    /\ \E D \in {send_packet(Cur, tseq[t], tflags[t].R, TRUE)} :
           /\ server_received' = D.recv
           /\ outstanding' = D.outs
    /\ pc' = [pc EXCEPT ![t] = "idle"]
    /\ tflags' = [tflags EXCEPT ![t] = NoFlags]
    /\ UNCHANGED <<request_number, checked, pending_requests, panicked, nsends, tseq>>
    /\ CheckedFrame

\* SyncVariant::set_checked, line 104: self.checked.store(checked, SeqCst)
StoreChecked(t, c) ==
    /\ ~panicked
    /\ pc[t] = "idle"
    /\ checked' = c
    /\ pc' = [pc EXCEPT ![t] = IF c THEN "idle" ELSE "retaining"]
    /\ UNCHANGED <<request_number, pending_requests, server_received, outstanding, panicked,
                   nsends, tseq, tflags>>
    /\ CheckedFrame

\* SyncVariant::set_checked, lines 106-108: pending_requests.retain(..)
RetainPending(t) ==
    /\ ~panicked
    /\ pc[t] = "retaining"
    /\ pending_requests' = RetainUnchecked(pending_requests)
    /\ pc' = [pc EXCEPT ![t] = "idle"]
    /\ UNCHANGED <<request_number, checked, server_received, outstanding, panicked, nsends,
                   tseq, tflags>>
    /\ CheckedFrame

NextChecked ==
    \/ \E t \in Threads, R \in CheckedRequestTypes : BuildFlags(t, R)
    \/ \E t \in Threads : NumberRequest(t)
    \/ \E t \in Threads : TestChecked(t)
    \/ \E t \in Threads : InsertPending(t)
    \/ \E t \in Threads : FinishSend(t)
    \/ \E t \in Threads, c \in BOOLEAN : StoreChecked(t, c)
    \/ \E t \in Threads : RetainPending(t)

SpecChecked == InitSync /\ [][NextChecked]_vars

(***************************************************************************)
(* SpecRoute: one thread of a Display<_, SyncVariant> in wait(), inside    *)
(* process_bytes with a reply or an error of a pending request, one        *)
(* DashMap call per step, while other threads send GetProperty requests    *)
(* and retrieve replies and errors.  Every send succeeds.                  *)
(***************************************************************************)
\* process_bytes, lines 40-43 and 70: remove_pending_request(sequence) has
\* returned Some(pereq) for the message f that wait() read
RouteRemove(t, f, o) ==
    /\ ~panicked
    /\ \A u \in Threads : pc[u] = "idle"
    /\ f.seq \in DOMAIN pending_requests
    /\ o \in Answered(f)
    /\ ~AllZero(f)
    /\ pending_requests' = remove_pending_request(pending_requests, f.seq)
    /\ tflags' = [tflags EXCEPT ![t].flags = get_pending_request(Tables, f.seq).flags,
                                ![t].bytes = <<f>>]
    /\ tseq' = [tseq EXCEPT ![t] = o.cookie]
    /\ pc' = [pc EXCEPT ![t] = "removed"]
    /\ outstanding' = outstanding \ {o}
    /\ header' = <<f>>
    /\ consumed' = Consumed(32, additional_bytes(f).ab)
    /\ result' = Res("wait", "Routing", f.seq)
    /\ nwaits' = nwaits + 1
    /\ UNCHANGED <<debug_assertions, variant, request_number, checked, pending_errors,
                   pending_replies, queues, extensions, server_received, wire, queried,
                   panicked, nsends, nruns, calls, sendlog, alloc, aio>>

\* process_bytes, lines 46-57 and 71: insert_pending_reply unless the reply is
\* discarded, insert_pending_error for an error; Ok(())
RouteInsert(t) ==
    /\ ~panicked
    /\ pc[t] = "removed"
    /\ IF tflags[t].bytes[1].b0 = TYPE_REPLY
       THEN IF tflags[t].flags.discard_reply
            THEN UNCHANGED <<pending_replies, pending_errors, panicked>>
            ELSE /\ pending_replies' =
                        insert_pending_reply(pending_replies, tflags[t].bytes[1].seq,
                                             [bytes |-> tflags[t].bytes[1],
                                              extra |-> tflags[t].bytes[1].len,
                                              answers |-> Some(tseq[t])])
                 /\ panicked' = Collides(pending_replies, tflags[t].bytes[1].seq)
                 /\ UNCHANGED pending_errors
       ELSE /\ pending_errors' = insert_pending_error(pending_errors, tflags[t].bytes[1].seq,
                                                     tflags[t].bytes[1])
            /\ panicked' = Collides(pending_errors, tflags[t].bytes[1].seq)
            /\ UNCHANGED pending_replies
    /\ pc' = [pc EXCEPT ![t] = "idle"]
    /\ tflags' = [tflags EXCEPT ![t] = NoFlags]
    /\ result' = Res("wait", "Ok", tflags[t].bytes[1].seq)
    /\ UNCHANGED <<debug_assertions, variant, request_number, checked, pending_requests,
                   queues, extensions, server, consumed, header, counts, calls, tseq,
                   sendlog, alloc, aio>>

NextRoute ==
    \/ /\ nsends < MaxSends
       /\ \E d \in BOOLEAN : SendRequest(GetPropertyRequest, d, TRUE, "present")
    \/ /\ nwaits < MaxWaits
       /\ \E t \in Threads, f \in PlainReplyFrames \cup ErrorFrames :
             \E o \in outstanding : RouteRemove(t, f, o)
    \/ \E t \in Threads : RouteInsert(t)
    \/ \E s \in DOMAIN pending_replies : RetrievePendingReply(s)
    \/ \E s \in DOMAIN pending_errors : RetrievePendingError(s)

SpecRoute == InitSync /\ [][NextRoute]_vars

(***************************************************************************)
(* SpecExt: requests of two extensions and of the core protocol, the       *)
(* QueryExtension exchange going each of the ways it can.                  *)
(***************************************************************************)
BigReqEnableRequest == RequestType("BIG-REQUESTS", 0, 32, FALSE, NoWord)
ExtRequestTypes == {GlxVendorPrivateRequest, BigReqEnableRequest, GetPropertyRequest}

NextExt ==
    /\ nsends < MaxExtSends
    /\ \E R \in ExtRequestTypes, d \in BOOLEAN, ok \in BOOLEAN, outcome \in QueryOutcomes :
          SendRequest(R, d, ok, outcome)

SpecExt == InitUnsync /\ [][NextExt]_vars

(***************************************************************************)
(* SpecFlood: requests sent one after the other on a display nobody reads  *)
(* from, 2^16 of them and more.                                            *)
(***************************************************************************)
\* n calls of send_request_internal in a row for a request without a reply on
\* a checked display, every send succeeding, over sequence numbers that have
\* no entry: each call takes the next number, inserts an entry flagged checked
\* at it and puts one request on the wire.
SendRunChecked(n) ==
    /\ ~panicked
    /\ checked
    /\ nruns < MaxRuns
    /\ \A k \in DOMAIN pending_requests : (k - request_number) % SeqModulus >= n
    /\ pending_requests' =
           [x \in (DOMAIN pending_requests)
                      \cup {WrappingAdd16(request_number, i) : i \in 0..(n - 1)} |->
               IF x \in DOMAIN pending_requests THEN pending_requests[x]
               ELSE PendingRequestFlags(MapWindowRequest, FALSE, TRUE)]
    /\ request_number' = WrappingAdd16(request_number, n)
    /\ server_received' = WrappingAdd16(server_received, n)
    /\ result' = Res("send", "Ok", WrappingAdd16(request_number, n - 1))
    /\ nruns' = nruns + 1
    /\ header' = NoFrame
    /\ consumed' = Consumed(0, Zero32)
    /\ UNCHANGED <<debug_assertions, variant, checked, pending_errors, pending_replies,
                   queues, extensions, outstanding, wire, queried, panicked, nsends,
                   nwaits, calls, conc, alloc, aio>>

NextFlood ==
    \/ /\ nsends < MaxFloodSends
       /\ \E R \in {MapWindowRequest, GetPropertyRequest} :
             SendRequest(R, FALSE, TRUE, "present")
    \/ \E n \in RunLengths : SendRunChecked(n)
    \/ \E c \in BOOLEAN : SetChecked(c)

SpecFlood == InitUnsync /\ [][NextFlood]_vars

(***************************************************************************)
(* SpecAsync: one future of wait_async or send_request_internal_async at a *)
(* time on a Display<_, SyncVariant>.  A step polls the future up to its   *)
(* next await, completes the transport operation it awaits, or drops it.   *)
(***************************************************************************)
\* what a poll of the future left: io is how the transport operation it
\* awaited went ("pending" while it has not completed)
AsyncRes(op, kind, seq, io) == [op |-> op, kind |-> kind, seq |-> seq, io |-> io]

\* wait_async, lines 198-207: what the rest of the call (W) returns and leaves
Dispatched(W, io) ==
    /\ pending_requests' = W.out.T.reqs
    /\ pending_replies' = W.out.T.reps
    /\ pending_errors' = W.out.T.errs
    /\ event_queue' = W.out.T.evq
    /\ special_event_queues' = W.out.T.spq
    /\ panicked' = W.out.panic
    /\ result' = AsyncRes("wait_async", W.out.kind, W.out.seq, io)
    /\ consumed' = W.consumed
    /\ fut' = NoFuture

\* send_request_internal_async (output.rs 170-189) for a core request, up to
\* the await: the request is encoded, the Bomb made, send_packet pending
AsyncSendPoll(R, discard_reply) ==
    /\ ~panicked
    /\ fut = NoFuture
    /\ R.EXTENSION = None
    /\ discard_reply => R.REPLY_SIZE # 0
    /\ \E E \in {encode_request(Cur, R, discard_reply)} :
           /\ Commit(E.D)
           /\ fut' = IF E.D.panic THEN NoFuture
                     ELSE [NoFuture EXCEPT !.op = "send_async", !.pc = "write", !.bomb = TRUE,
                                           !.req = <<[R |-> R, sequence |-> E.sequence]>>]
           /\ result' = AsyncRes("send_async", IF E.D.panic THEN "Panic" ELSE "Pending",
                                  E.sequence, "pending")
    /\ nsends' = nsends + 1
    /\ header' = NoFrame
    /\ consumed' = Consumed(0, Zero32)
    /\ UNCHANGED <<debug_assertions, variant, checked, queues, wire, nwaits, nruns, calls,
                   conc, alloc, poll>>

\* output.rs 189-194: send_packet has completed; mem::forget(_bomb); res?
AsyncSendDone(ok) ==
    /\ ~panicked
    /\ fut.pc = "write"
    /\ Commit(send_packet(Cur, fut.req[1].sequence, fut.req[1].R, ok))
    /\ result' = AsyncRes("send_async", IF ok THEN "Ok" ELSE "Io", fut.req[1].sequence,
                           IF ok THEN "ok" ELSE "failed")
    /\ fut' = NoFuture
    /\ UNCHANGED <<debug_assertions, variant, checked, queues, wire, consumed, header,
                   counts, calls, conc, alloc, poll>>

\* wait_async (input.rs 187-195) up to the first await: the Bomb made, the read
\* of the 32 header bytes pending
AsyncWaitPoll ==
    /\ ~panicked
    /\ fut = NoFuture
    /\ fut' = [NoFuture EXCEPT !.op = "wait_async", !.pc = "header", !.bomb = TRUE]
    /\ result' = AsyncRes("wait_async", "Pending", 0, "pending")
    /\ nwaits' = nwaits + 1
    /\ header' = NoFrame
    /\ consumed' = Consumed(0, Zero32)
    /\ UNCHANGED <<debug_assertions, variant, request_number, checked, tables, queues,
                   extensions, server, panicked, nsends, nruns, calls, conc, alloc, poll>>

\* input.rs 195-207, the header read having completed.  Failed: the ? returns
\* with _bomb alive, and dropping it panics.  Read, with header f:
\* mem::forget(_bomb), fix_glx_workaround, then the read of the payload, which
\* is pending when there are bytes to read, then process_bytes.
AsyncHeaderDone(f, origin, ok) ==
    /\ ~panicked
    /\ fut.pc = "header"
    /\ IF ~ok
       THEN /\ panicked' = TRUE
            /\ result' = AsyncRes("wait_async", "Panic", 0, "failed")
            /\ fut' = NoFuture
            /\ UNCHANGED <<tables, queues, outstanding, header, consumed>>
       ELSE /\ header' = <<f>>
            /\ outstanding' = {o \in outstanding : ~(o.sseq = f.seq /\ Some(o.cookie) = origin)}
            /\ \E G \in {fix_glx_workaround(Tables, f)} :
                  IF PayloadFollows(G)
                  THEN /\ fut' = [fut EXCEPT !.pc = "payload", !.bomb = FALSE,
                                             !.bytes = <<G.bytes>>, !.origin = origin]
                       /\ result' = AsyncRes("wait_async", "Pending", f.seq, "ok")
                       /\ consumed' = Consumed(32, Zero32)
                       /\ UNCHANGED <<tables, queues, panicked>>
                  ELSE Dispatched(wait_after_workaround(Tables, G, origin, "ok"), "ok")
    /\ UNCHANGED <<debug_assertions, variant, request_number, checked, extensions,
                   server_received, wire, queried, counts, calls, conc, alloc, poll>>

\* input.rs 202-207, the payload read having completed: ? on its result, then
\* process_bytes
AsyncPayloadDone(ok) ==
    /\ ~panicked
    /\ fut.pc = "payload"
    /\ Dispatched(wait_read_payload(Tables, fut.bytes[1], additional_bytes(fut.bytes[1]).ab,
                                     fut.origin, IF ok THEN "ok" ELSE "fail2"),
                  IF ok THEN "ok" ELSE "failed")
    /\ UNCHANGED <<debug_assertions, variant, request_number, checked, extensions, server,
                   header, counts, calls, conc, alloc, poll>>

\* the future is dropped at an await: its locals are dropped, and a Bomb among
\* them panics (input.rs 21-26, output.rs 14-19)
DropFuture ==
    /\ ~panicked
    /\ fut.pc # "idle"
    /\ panicked' = fut.bomb
    /\ result' = AsyncRes("drop", IF fut.bomb THEN "Panic" ELSE "Dropped", 0, "pending")
    /\ fut' = NoFuture
    /\ UNCHANGED <<debug_assertions, variant, request_number, checked, tables, queues,
                   extensions, server, consumed, header, counts, calls, conc, alloc, poll>>

NextAsync ==
    \/ /\ nsends < MaxSends
       /\ \E R \in RequestTypes, d \in BOOLEAN : AsyncSendPoll(R, d)
    \/ \E ok \in BOOLEAN : AsyncSendDone(ok)
    \/ /\ nwaits < MaxWaits
       /\ AsyncWaitPoll
    \/ \E f \in Frames, ok \in BOOLEAN :
          /\ f.b0 \notin {TYPE_REPLY, TYPE_ERROR} => QueuedEvents < MaxQueue
          /\ ~ok => f = ZeroFrame
          /\ \E origin \in Origins(f) : AsyncHeaderDone(f, origin, ok)
    \/ \E ok \in BOOLEAN : AsyncPayloadDone(ok)
    \/ DropFuture

SpecAsync == InitSync /\ [][NextAsync]_vars

(***************************************************************************)
(* SpecPoll: poll_send_packet and poll_read_packet of the connections      *)
(* built on AsyncWrite/AsyncRead (async_connection.rs 129-195, the branch  *)
(* that is not cfg(unix)).  poll.packet is the caller's buffer,            *)
(* poll.counter its bytes_written or bytes_read, poll.stream the bytes     *)
(* that went through the stream during the operation, in stream order.     *)
(* The caller polls again with the same buffer and counter after Pending.  *)
(***************************************************************************)
Packets == {<<17, 34, 51>>, <<68, 85>>}
\* what one poll_write or poll_read answers: Pending, Ready(Err), Ready(Ok(n))
IoOutcomes ==
    {[poll |-> "Pending", n |-> 0], [poll |-> "Err", n |-> 0]}
        \cup {[poll |-> "Ok", n |-> n] : n \in 0 .. PacketLen}
IoRuns == UNION {[1 .. k -> IoOutcomes] : k \in 1 .. PacketLen}

\* the while loop of lines 142-155 (and 176-189) on a buffer of len bytes, when
\* the stream answers outs[1], outs[2], ... to its calls: n is how far
\* `bytes = &bytes[n..]` got from the start of the buffer, ret what the
\* function returns ("more": the loop would call the stream again; "stop": it
\* would not have made the last call, or the stream took more than offered)
poll_loop(len, outs) ==
    LET st[i \in 0 .. Len(outs)] ==
            IF i = 0 THEN [off |-> 0, ret |-> "loop"]
            ELSE IF st[i - 1].ret # "loop" \/ st[i - 1].off >= len
                 THEN [off |-> st[i - 1].off, ret |-> "stop"]
            ELSE IF outs[i].poll = "Pending" THEN [off |-> st[i - 1].off, ret |-> "Pending"]
            ELSE IF outs[i].poll = "Err" \/ outs[i].n = 0
                 THEN [off |-> st[i - 1].off, ret |-> "Err"]
            ELSE IF outs[i].n > len - st[i - 1].off THEN [off |-> st[i - 1].off, ret |-> "stop"]
            ELSE [off |-> st[i - 1].off + outs[i].n, ret |-> "loop"]
        last == st[Len(outs)]
    IN  [n |-> last.off,
         ret |-> IF last.ret # "loop" THEN last.ret
                 ELSE IF last.off >= len THEN "Ready" ELSE "more"]

\* send_packet_async / read_packet_async: a future over the buffer, nothing
\* transferred yet
StartPacket(op, p) ==
    /\ poll' = [NoPoll EXCEPT !.op = op, !.state = "Pending",
                              !.packet = IF op = "send" THEN p ELSE [i \in DOMAIN p |-> 0]]
    /\ UNCHANGED <<debug_assertions, variant, request_number, checked, tables, queues,
                   extensions, server, panicked, consumed, header, result, counts, calls,
                   conc, alloc, fut>>

\* one call of poll_send_packet (lines 129-161) with the buffer and the counter
\* of the call before: the loop starts from `bytes`, the whole buffer
poll_send_packet(outs) ==
    /\ poll.op = "send"
    /\ poll.state = "Pending"
    /\ poll.polls < MaxPolls
    /\ \E L \in {poll_loop(Len(poll.packet), outs)} :
           /\ L.ret \in {"Pending", "Err", "Ready"}
           /\ poll' = [poll EXCEPT !.stream = @ \o SubSeq(poll.packet, 1, L.n),
                                   !.counter = @ + L.n,
                                   !.state = L.ret,
                                   !.polls = @ + 1]
    /\ UNCHANGED <<debug_assertions, variant, request_number, checked, tables, queues,
                   extensions, server, panicked, consumed, header, result, counts, calls,
                   conc, alloc, fut>>

\* one call of poll_read_packet (lines 163-195); the stream's j-th byte of the
\* operation is j
poll_read_packet(outs) ==
    /\ poll.op = "read"
    /\ poll.state = "Pending"
    /\ poll.polls < MaxPolls
    /\ \E L \in {poll_loop(Len(poll.packet), outs)} :
           /\ L.ret \in {"Pending", "Err", "Ready"}
           /\ poll' = [poll EXCEPT !.packet = [i \in DOMAIN @ |->
                                                  IF i <= L.n THEN Len(poll.stream) + i
                                                  ELSE @[i]],
                                   !.stream = @ \o [i \in 1 .. L.n |-> Len(poll.stream) + i],
                                   !.counter = @ + L.n,
                                   !.state = L.ret,
                                   !.polls = @ + 1]
    /\ UNCHANGED <<debug_assertions, variant, request_number, checked, tables, queues,
                   extensions, server, panicked, consumed, header, result, counts, calls,
                   conc, alloc, fut>>

NextPoll ==
    \/ \E op \in {"send", "read"}, p \in Packets : StartPacket(op, p)
    \/ \E outs \in IoRuns : poll_send_packet(outs)
    \/ \E outs \in IoRuns : poll_read_packet(outs)

SpecPoll == Init /\ [][NextPoll]_vars

(***************************************************************************)
(* SpecEncode: encode_request on requests of every length worth trying.    *)
(***************************************************************************)
\* what as_bytes returns: nothing, less than a header, a header, every
\* remainder modulo 4, and lengths at the end of what 16 bits of 4-byte units
\* hold
AsBytesLens == {0, 1, 4, 5, 6, 7, 8, 32, 34, 36, 262137, 262140, 262141, 262144}
\* req.size() is a hint: what as_bytes then uses, or more
SizeSlack == {0, 2, 4}

ExtOpcodeOf(R) == IF R.EXTENSION = None THEN << >> ELSE Some(ExtensionOpcode(R.EXTENSION))

\* the requests encoded: those of Spec, GLX requests with opcode 17 with and
\* without 0x10004 in bytes 32..36, and requests outside GLX with opcode 17 and
\* 21 and that word
EncodeRequestTypes ==
    RequestTypes \cup {RequestType("GLX", 17, 32, FALSE, Some(GlxMagic)),
                       RequestType("GLX", 17, 32, FALSE, Some(GlxMagic + 1)),
                       RequestType(None, 17, 32, FALSE, Some(GlxMagic)),
                       RequestType("XFIXES", 21, 32, FALSE, Some(GlxMagic))}

Encoded(R, discard_reply, len, endian, B, sequence) ==
    [op |-> "encode_request", kind |-> IF B.panic THEN "Panic" ELSE "Ok",
     seq |-> sequence, R |-> R, discard |-> discard_reply, as_len |-> len,
     endian |-> endian, bytes |-> B]

\* encode_request(req, ext_opcode, discard_reply); an index out of bounds
\* panics before the sequence number is taken.  The flags are made from the
\* bytes as encoded: the word the match looks at is bytes.get(32..36).
EncodeRequest(R, discard_reply, len, size, endian) ==
    /\ ~panicked
    /\ nsends < MaxEncodes
    /\ discard_reply => R.REPLY_SIZE # 0
    /\ \E B \in {encode_bytes(R, ExtOpcodeOf(R), len, size, endian)} :
       \E E \in {encode_request(Cur, [R EXCEPT !.word32 = bytes_get_32_36(B, R, endian)],
                                discard_reply)} :
           IF B.panic
           THEN /\ Commit([Cur EXCEPT !.panic = TRUE])
                /\ result' = Encoded(R, discard_reply, len, endian, B, 0)
           ELSE /\ Commit(E.D)
                /\ result' = Encoded(R, discard_reply, len, endian, B, E.sequence)
    /\ nsends' = nsends + 1
    /\ header' = NoFrame
    /\ consumed' = Consumed(0, Zero32)
    /\ UNCHANGED <<debug_assertions, variant, checked, queues, wire, nwaits, nruns, calls,
                   conc, alloc, aio>>

\* a buffer larger than what as_bytes uses matters for the short requests;
\* one request type is enough to have replies discarded
NextEncode ==
    \/ \E R \in EncodeRequestTypes, d \in BOOLEAN, len \in AsBytesLens, slack \in SizeSlack,
          endian \in Endians :
           /\ slack # 0 => (len < 8 /\ endian = "little")
           /\ d => R = GetPropertyRequest
           /\ EncodeRequest(R, d, len, len + slack, endian)
    \/ \E c \in BOOLEAN : SetChecked(c)

SpecEncode == InitUnsync /\ [][NextEncode]_vars

(***************************************************************************)
(* SpecXid: set_xid_base once, then generate_xid over and over.            *)
(***************************************************************************)
\* the resource-id-base and resource-id-mask of the connection setup
XidBases == {U32(256, 0), Zero32}
XidMasks == {U32(0, 255), U32(0, 5), U32(0, 6), U32(32768, 0)}

\* what generate_xid returned: next().ok_or(BreadError::NoXID)
Generated(ret, panic) ==
    [op |-> "generate_xid",
     kind |-> IF panic THEN "Panic" ELSE IF ret = << >> THEN "NoXID" ELSE "Ok",
     seq |-> 0, xid |-> ret]

\* set_xid_base(base, mask), called once while the display is set up
SetXidBase(base, mask) ==
    /\ xid = XidGeneratorDefault
    /\ xid' = XidGeneratorNew(base, mask)
    /\ Returned(Unit)
    /\ UNCHANGED <<debug_assertions, variant, request_number, checked, tables, queues,
                   extensions, server, panicked, counts, calls, conc, issued, xthr, aio>>

\* generate_xid() on a display that has been set up
GenerateXid ==
    /\ ~panicked
    /\ xid # XidGeneratorDefault
    /\ Len(issued) < MaxXidCalls
    /\ \E N \in {XidNext(variant, xid)} :
           /\ xid' = N.g
           /\ panicked' = N.panic
           /\ issued' = IF N.panic THEN issued ELSE Append(issued, N.ret)
           /\ result' = Generated(N.ret, N.panic)
    /\ header' = NoFrame
    /\ consumed' = Consumed(0, Zero32)
    /\ UNCHANGED <<debug_assertions, variant, request_number, checked, tables, queues,
                   extensions, server, counts, calls, conc, xthr, aio>>

NextXid ==
    \/ \E base \in XidBases, mask \in XidMasks : SetXidBase(base, mask)
    \/ GenerateXid

SpecXid == InitEvents /\ [][NextXid]_vars

(***************************************************************************)
(* SpecXidConc: threads of one Display<_, SyncVariant> in                  *)
(* XidGeneratorSync::next, one atomic load or store per step.              *)
(***************************************************************************)
XidFrame ==
    UNCHANGED <<debug_assertions, variant, request_number, checked, tables, queues,
                extensions, server, result, consumed, header, counts, calls, conc, aio>>

\* xid.rs 117: let last = self.last.load(SeqCst)
LoadLast(t) ==
    /\ ~panicked
    /\ xid # XidGeneratorDefault
    /\ xthr[t].pc = "idle"
    /\ Len(issued) + Cardinality({u \in Threads : xthr[u].pc # "idle"}) < MaxXidConcCalls
    /\ xthr' = [xthr EXCEPT ![t] = [pc |-> "loaded_last", last |-> xid.last, max |-> Zero32]]
    /\ UNCHANGED <<xid, issued, panicked>>
    /\ XidFrame

\* xid.rs 118: let max = self.max.load(SeqCst)
LoadMax(t) ==
    /\ ~panicked
    /\ xthr[t].pc = "loaded_last"
    /\ xthr' = [xthr EXCEPT ![t].pc = "loaded_max", ![t].max = xid.max]
    /\ UNCHANGED <<xid, issued, panicked>>
    /\ XidFrame

\* xid.rs 119-130: the test on the loaded values, and the first store of the
\* branch taken (or the return of None, or the panic of assert_eq!)
Branch(t) ==
    /\ ~panicked
    /\ xthr[t].pc = "loaded_max"
    /\ IF AtLimit(xthr[t].last, xthr[t].max, xid.inc)
       THEN IF xthr[t].last # xthr[t].max
            THEN /\ panicked' = TRUE
                 /\ UNCHANGED <<xid, issued, xthr>>
            ELSE IF xthr[t].last = Zero32
                 THEN /\ xid' = [xid EXCEPT !.max = xid.mask]
                      /\ xthr' = [xthr EXCEPT ![t].pc = "seeding"]
                      /\ UNCHANGED <<issued, panicked>>
                 ELSE /\ issued' = Append(issued, << >>)
                      /\ xthr' = [xthr EXCEPT ![t] = XidIdle]
                      /\ UNCHANGED <<xid, panicked>>
       ELSE /\ xid' = [xid EXCEPT !.last = WrappingAdd32(xthr[t].last, xid.inc)]
            /\ xthr' = [xthr EXCEPT ![t].pc = "eval"]
            /\ UNCHANGED <<issued, panicked>>
    /\ XidFrame

\* xid.rs 123: self.last.store(self.inc, SeqCst)
StoreSeed(t) ==
    /\ ~panicked
    /\ xthr[t].pc = "seeding"
    /\ xid' = [xid EXCEPT !.last = xid.inc]
    /\ xthr' = [xthr EXCEPT ![t].pc = "eval"]
    /\ UNCHANGED <<issued, panicked>>
    /\ XidFrame

\* xid.rs 132: Some(self.eval_in_place()), which loads last again
Eval(t) ==
    /\ ~panicked
    /\ xthr[t].pc = "eval"
    /\ issued' = Append(issued, Some(eval_in_place(xid)))
    /\ xthr' = [xthr EXCEPT ![t] = XidIdle]
    /\ UNCHANGED <<xid, panicked>>
    /\ XidFrame

NextXidConc ==
    \/ \E base \in XidBases, mask \in XidMasks : SetXidBase(base, mask)
    \/ \E t \in Threads : LoadLast(t)
    \/ \E t \in Threads : LoadMax(t)
    \/ \E t \in Threads : Branch(t)
    \/ \E t \in Threads : StoreSeed(t)
    \/ \E t \in Threads : Eval(t)

SpecXidConc == InitSync /\ [][NextXidConc]_vars

(***************************************************************************)
(* SpecXidAssert: next() of the generator of either variant, whole calls   *)
(* on XidGeneratorUnsync and interleaved loads and stores on               *)
(* XidGeneratorSync, with a mask small enough for the threads to reach the *)
(* end of the range.                                                       *)
(***************************************************************************)
XidAssertMasks == XidMasks \cup {U32(0, 1)}

NextXidAssert ==
    \/ \E base \in XidBases, mask \in XidAssertMasks : SetXidBase(base, mask)
    \/ /\ variant = "unsync"
       /\ GenerateXid
    \/ /\ variant = "sync"
       /\ \E t \in Threads : LoadLast(t)
    \/ /\ variant = "sync"
       /\ \E t \in Threads : LoadMax(t)
    \/ /\ variant = "sync"
       /\ \E t \in Threads : Branch(t)
    \/ /\ variant = "sync"
       /\ \E t \in Threads : StoreSeed(t)
    \/ /\ variant = "sync"
       /\ \E t \in Threads : Eval(t)

SpecXidAssert == InitEvents /\ [][NextXidAssert]_vars

(***************************************************************************)
(* SpecVariants: the operations of DisplayVariant called one after the     *)
(* other by a single caller, on an UnsyncVariant or on a SyncVariant.      *)
(***************************************************************************)
NextVariants ==
    \/ /\ nsends < MaxVariantCalls
       /\ \E R \in CheckedRequestTypes, d \in BOOLEAN, ok \in BOOLEAN :
             SendRequest(R, d, ok, "present")
    \/ /\ nwaits < MaxVariantCalls
       /\ \E f \in PlainReplyFrames \cup ErrorFrames \cup {XgeFrame} :
             \E origin \in Origins(f) : Wait(f, origin, "ok")
    \/ \E c \in BOOLEAN : SetChecked(c)
    \/ \E s \in DOMAIN pending_replies : RetrievePendingReply(s)
    \/ \E s \in DOMAIN pending_errors : RetrievePendingError(s)
    \/ RegisterSpecialEvent(XidB)
    \/ UnregisterSpecialEvent(XidB)
    \/ PopEvent
    \/ \E x \in DOMAIN special_event_queues : GetSpecialEvent(x)
    \/ \E mask \in {U32(0, 1), U32(0, 6)} : SetXidBase(U32(256, 0), mask)
    \/ /\ Len(issued) < MaxXidConcCalls
       /\ GenerateXid

SpecVariants == InitEvents /\ [][NextVariants]_vars

(***************************************************************************)
(* Properties.                                                             *)
(***************************************************************************)
\* a step that is a call of wait() which read a header off the stream
WaitRead == nwaits' = nwaits + 1 /\ header' # NoFrame

\* the length word of header f once fix_glx_workaround has run on tables T
PatchedLength(T, f) ==
    IF f.b0 = TYPE_REPLY /\ f.seq \in DOMAIN T.reqs
       /\ T.reqs[f.seq].workaround = GlxFbconfigBug
    THEN GlxLength(f.w8, f.w12).value
    ELSE f.len

\* C1: a reply in the pending-reply table lies under the sequence number of
\* the cookie of the request the server was answering, the server numbering
\* the requests from 0 in the order they reach it and echoing that number.
RoundTripSequenceAgreement ==
    \A s \in DOMAIN pending_replies :
        pending_replies[s].answers \in {NoOrigin, Some(s)}

\* C2: on a fresh variant the k-th call of next_request_number returns
\* (k - 1) mod 2^16: 0 first, then the previous result plus one, 0 after 65535.
SequenceNumbersCountModulo ==
    calls > 0 => result = Res("next_request_number", "Ok", (calls - 1) % SeqModulus)

SequenceNumbersCountModuloWitness ==
    /\ calls = SeqModulus + 1
    /\ result = Res("next_request_number", "Ok", 0)

\* C3: the numbers handed to the threads of the thread-safe variant are
\* pairwise distinct, and the wire holds the requests in the order of the
\* send_packet calls that succeeded.
DistinctNumbersWireInCallOrder ==
    /\ \A i, j \in 1..Len(sendlog) : i # j => sendlog[i].cookie # sendlog[j].cookie
    /\ \A t \in Threads : pc[t] # "idle" =>
           \A i \in 1..Len(sendlog) : sendlog[i].cookie # tseq[t]
    /\ \A t, u \in Threads : (t # u /\ pc[t] # "idle" /\ pc[u] # "idle") => tseq[t] # tseq[u]
    /\ LET sent == SelectSeq(sendlog, LAMBDA e : e.ok)
       IN  /\ Len(wire) = Len(sent)
           /\ \A i \in 1..Len(sent) : wire[i] = sent[i].cookie

\* two threads took their numbers in one order and called send_packet in the other
DistinctNumbersWireInCallOrderWitness ==
    /\ Len(sendlog) = 2
    /\ sendlog[1].thread # sendlog[2].thread
    /\ sendlog[1].ok /\ sendlog[2].ok
    /\ sendlog[1].cookie > sendlog[2].cookie
    /\ wire = <<sendlog[1].cookie, sendlog[2].cookie>>

\* C4: a reply enters the pending-reply table only in a wait() that read a
\* reply header for that sequence, found a pending request there and removed
\* it; a wait() that reads a reply header for a sequence without a pending
\* request returns NoMatchingRequest(sequence) and changes no table or queue.
ReplyNeedsPendingRequest ==
    [][ /\ \A k \in DOMAIN pending_replies' :
              (k \notin DOMAIN pending_replies \/ pending_replies'[k] # pending_replies[k])
                  => /\ WaitRead
                     /\ header'[1].b0 = TYPE_REPLY
                     /\ header'[1].seq = k
                     /\ k \in DOMAIN pending_requests
                     /\ k \notin DOMAIN pending_requests'
        /\ (WaitRead /\ header'[1].b0 = TYPE_REPLY
                /\ header'[1].seq \notin DOMAIN pending_requests)
              => /\ result' = Res("wait", "NoMatchingRequest", header'[1].seq)
                 /\ UNCHANGED <<tables, queues>>
      ]_vars

\* a wait() has just stored a reply while another request was still pending
ReplyNeedsPendingRequestWitness ==
    /\ result.op = "wait" /\ result.kind = "Ok"
    /\ header # NoFrame
    /\ header[1].b0 = TYPE_REPLY
    /\ header[1].seq \in DOMAIN pending_replies
    /\ header[1].seq \notin DOMAIN pending_requests
    /\ pending_requests # EmptyMap

\* C5: no sequence number has both a pending request and a pending reply or
\* pending error.
AtMostOneRecordPerSequence ==
    \A s \in DOMAIN pending_requests :
        s \notin (DOMAIN pending_replies) \cup (DOMAIN pending_errors)

\* C6: whenever two requests with a reply (not discarded) are pending, wait()
\* given their replies in either order returns ok both times, never
\* NoMatchingRequest, and ends with the same pending-reply table, each reply
\* under its own sequence, and with both requests gone from the pending table.
RepliesMatchedInAnyOrder ==
    \A s, t \in DOMAIN pending_requests :
        (s # t /\ ~pending_requests[s].discard_reply /\ ~pending_requests[t].discard_reply
             /\ ~pending_requests[s].checked /\ ~pending_requests[t].checked)
        => LET fs == Frame(TYPE_REPLY, s, One32, One32, One32, 0)
               ft == Frame(TYPE_REPLY, t, One32, One32, One32, 0)
               a1 == wait(Tables, fs, Some(s), "ok")
               a2 == wait(a1.out.T, ft, Some(t), "ok")
               b1 == wait(Tables, ft, Some(t), "ok")
               b2 == wait(b1.out.T, fs, Some(s), "ok")
           IN  /\ {a1.out.kind, a2.out.kind, b1.out.kind, b2.out.kind} = {"Ok"}
               /\ a2.out.T.reps = b2.out.T.reps
               /\ {s, t} \subseteq DOMAIN a2.out.T.reps
               /\ a2.out.T.reps[s].bytes.seq = s
               /\ a2.out.T.reps[t].bytes.seq = t
               /\ a2.out.T.reqs = b2.out.T.reqs
               /\ DOMAIN a2.out.T.reqs = (DOMAIN pending_requests) \ {s, t}

\* C7: a wait() that reads an error header that is not all zero: with a
\* pending request at its sequence, removes the request, stores the error under
\* the sequence and returns ok; with none, changes no table and returns the
\* error.
ErrorRouting ==
    [][ (WaitRead /\ header'[1].b0 = TYPE_ERROR /\ header'[1] # ZeroFrame)
          => LET f == header'[1]
             IN  IF f.seq \in DOMAIN pending_requests
                 THEN /\ pending_requests' = MapRemove(pending_requests, f.seq)
                      /\ f.seq \in DOMAIN pending_errors'
                      /\ pending_errors'[f.seq] = f
                      /\ result' = Res("wait", "Ok", f.seq)
                 ELSE /\ UNCHANGED tables
                      /\ result' = Res("wait", "XError", f.seq)
      ]_vars

\* C8: a wait() that reads an all-zero header returns ClosedConnection and
\* changes no table and no queue, a pending request at sequence 0 or not.
AllZeroFrameClosesConnection ==
    [][ (WaitRead /\ header'[1] = ZeroFrame)
          => /\ result' = Res("wait", "ClosedConnection", 0)
             /\ UNCHANGED <<tables, queues>>
      ]_vars

\* the all-zero header was read while a request with sequence 0 was pending
AllZeroFrameClosesConnectionWitness ==
    /\ result = Res("wait", "ClosedConnection", 0)
    /\ header = <<ZeroFrame>>
    /\ 0 \in DOMAIN pending_requests

\* C9: a wait() that returns (ok or an error other than Io) has taken from
\* the stream the 32 header bytes and, for a reply or a generic event, as many
\* 4-byte units as the length word says after the GLX patch; nothing for any
\* other message.
WaitConsumesOneMessage ==
    [][ (WaitRead /\ result'.kind \notin {"Io", "Panic"})
          => LET f == header'[1]
             IN  consumed' =
                    Consumed(32, IF f.b0 = TYPE_REPLY \/ Mask7F(f.b0) = GENERIC_EVENT
                                 THEN PatchedLength(Tables, f)
                                 ELSE Zero32)
      ]_vars

\* C10: a wait() that routes a reply to a pending request: with discard_reply
\* set, removes the request, stores nothing, and the sequence is then in none
\* of the three tables; with it clear, stores the reply under the sequence.
DiscardedReplyLeavesNothing ==
    [][ (WaitRead /\ header'[1].b0 = TYPE_REPLY
            /\ header'[1].seq \in DOMAIN pending_requests
            /\ result'.kind = "Ok")
          => LET f == header'[1]
             IN  IF pending_requests[f.seq].discard_reply
                 THEN /\ pending_requests' = MapRemove(pending_requests, f.seq)
                      /\ pending_replies' = pending_replies
                      /\ f.seq \notin (DOMAIN pending_requests') \cup (DOMAIN pending_replies')
                                         \cup (DOMAIN pending_errors')
                 ELSE /\ f.seq \in DOMAIN pending_replies'
                      /\ pending_replies'[f.seq].bytes = [f EXCEPT !.len = PatchedLength(Tables, f)]
                      /\ pending_replies'[f.seq].extra = PatchedLength(Tables, f)
      ]_vars

QueuesAreFifo ==
    [][ /\ (WaitRead /\ result'.kind = "Ok")
              => \/ /\ Len(event_queue') = Len(event_queue) + 1
                    /\ SubSeq(event_queue', 1, Len(event_queue)) = event_queue
                    /\ event_queue'[Len(event_queue')].raw = header'[1]
                    /\ UNCHANGED special_event_queues
                 \/ /\ UNCHANGED event_queue
                    /\ \E x \in DOMAIN special_event_queues :
                          /\ DOMAIN special_event_queues' = DOMAIN special_event_queues
                          /\ \A y \in (DOMAIN special_event_queues) \ {x} :
                                special_event_queues'[y] = special_event_queues[y]
                          /\ Len(special_event_queues'[x]) = Len(special_event_queues[x]) + 1
                          /\ SubSeq(special_event_queues'[x], 1, Len(special_event_queues[x]))
                                = special_event_queues[x]
                          /\ special_event_queues'[x][Len(special_event_queues'[x])].raw
                                = header'[1]
        /\ result'.op = "pop_event"
              => /\ UNCHANGED special_event_queues
                 /\ IF event_queue = << >>
                    THEN result'.event = << >> /\ UNCHANGED event_queue
                    ELSE /\ result'.event = <<event_queue[1]>>
                         /\ event_queue = <<event_queue[1]>> \o event_queue'
        /\ (result'.op = "get_special_event" /\ result'.eid[1] \in DOMAIN special_event_queues)
              => LET x == result'.eid[1]
                     q == special_event_queues[x]
                 IN  /\ UNCHANGED event_queue
                     /\ DOMAIN special_event_queues' = DOMAIN special_event_queues
                     /\ \A y \in (DOMAIN special_event_queues) \ {x} :
                           special_event_queues'[y] = special_event_queues[y]
                     /\ IF q = << >>
                        THEN result'.event = << >> /\ special_event_queues'[x] = q
                        ELSE /\ result'.event = <<q[1]>>
                             /\ q = <<q[1]>> \o special_event_queues'[x]
      ]_vars

\* of two different events queued one after the other on a special queue, an
\* event having been queued on the main queue in between, the older one has
\* just been returned and the newer one is what is left
QueuesAreFifoWitness ==
    /\ result.op = "get_special_event" /\ result.kind = "Some"
    /\ Len(special_event_queues[result.eid[1]]) = 1
    /\ special_event_queues[result.eid[1]][1] # result.event[1]
    /\ special_event_queues[result.eid[1]][1].raw.b0 = GENERIC_EVENT
    /\ result.event[1].raw.b0 = GENERIC_EVENT + GE_MASK + 1
    /\ Len(event_queue) = 1
    /\ nwaits = 3

\* C13: get_special_event for a resource id without a registered queue
\* returns an error to its caller; it does not panic.
GetSpecialEventReportsError ==
    (result.op = "get_special_event" /\ result.eid[1] \notin DOMAIN special_event_queues)
        => (result.kind = "Err" /\ ~panicked)

\* C14: in one sequence of next() calls on a generator, whatever base and
\* mask it was made with, a call that returns an XID returns one that no
\* earlier call returned, and a call after one that returned NONE returns
\* NONE.
XidsDistinctUntilNone ==
    \A i \in 1..(Len(issued) - 1) :
        /\ issued[i] = << >> => issued[Len(issued)] = << >>
        /\ issued[Len(issued)] # << >> => issued[i] # issued[Len(issued)]

\* C15: an XID returned by next() is last | base and has no bit set outside
\* base | mask, whatever the base and the mask.
XidConfinedToMask ==
    (issued # << >> /\ issued[Len(issued)] # << >>)
        => /\ issued[Len(issued)][1] = Or32(xid.last, xid.base)
           /\ And32(issued[Len(issued)][1], Or32(xid.base, xid.mask)) = issued[Len(issued)][1]

\* C16: with inc = mask & -mask, the k-th call of next() returns
\* base | k * inc as long as k * inc is at most mask, and NONE from then on;
\* for base 0x01000000 and mask 0xff that is 0x01000001 .. 0x010000ff and
\* then NONE.
XidSequenceAsSpecified ==
    LET Step(k) == Mul32(U32(0, k), xid.inc)
        WithinMask(k) == ~Step(k).overflow /\ Geq32(xid.mask, Step(k).value)
    IN  issued # << >>
            => issued[Len(issued)] =
                   IF WithinMask(Len(issued))
                   THEN Some(Or32(xid.base, Step(Len(issued)).value))
                   ELSE << >>

\* C17: when the concurrent calls of next() on the thread-safe generator
\* have all returned, no two of them have returned the same XID, and the XIDs
\* they returned are those that as many calls one after the other return.
ConcurrentXidsAsSequential ==
    LET run[k \in 0..Len(issued)] ==
            IF k = 0
            THEN [g |-> XidGeneratorNew(xid.base, xid.mask), ret |-> << >>, panic |-> FALSE]
            ELSE XidGeneratorNext(run[k - 1].g)
    IN  (\A t \in Threads : xthr[t].pc = "idle")
            => /\ \A i, j \in 1..Len(issued) :
                     (i # j /\ issued[i] # << >>) => issued[i] # issued[j]
               /\ {issued[i] : i \in 1..Len(issued)} \ {<< >>}
                     = {run[k].ret : k \in 1..Len(issued)} \ {<< >>}

\* C18: for each extension name at most one QueryExtension request is sent
\* on a display, however the first one went.
QueryExtensionAtMostOnce ==
    \A i, j \in 1..Len(queried) :
        (i # j /\ queried[i].outcome # "io" /\ queried[j].outcome # "io")
            => queried[i].name # queried[j].name

\* C19: send_request fails with ExtensionNotPresent only when the
\* QueryExtension reply said the extension is not present; when the exchange
\* fails in the transport the error is Io; and in both cases no opcode is
\* cached and the request itself gets no sequence number and no pending entry
\* (the one number taken is that of the QueryExtension request).
ExtensionErrorsDistinguishable ==
    [][ (result'.op = "send" /\ Len(queried') = Len(queried) + 1
            /\ queried'[Len(queried')].outcome # "present")
          => /\ result'.kind = IF queried'[Len(queried')].outcome = "absent"
                               THEN "ExtensionNotPresent"
                               ELSE "Io"
             /\ extensions' = extensions
             /\ request_number' = WrappingAdd16(request_number, 1)
             /\ DOMAIN pending_requests' \subseteq (DOMAIN pending_requests) \cup {request_number}
      ]_vars

\* C20: the bytes encode_request produces: their number is a multiple of 4;
\* the 16-bit value in bytes 2..4 times 4 is their number; byte 0 is
\* R::OPCODE for a core request, the major opcode for an extension request
\* with R::OPCODE in byte 1; the padding bytes (those after the 4 header
\* bytes) are zero.  For every request and every length as_bytes returns.
EncodedBytesWellFormed ==
    result.op = "encode_request"
        => /\ result.kind = "Ok"
           /\ result.bytes.len % 4 = 0
           /\ result.bytes.len >= 4
           /\ (ByteAt(result.bytes, 2) + 256 * ByteAt(result.bytes, 3)) * 4 = result.bytes.len
           /\ IF result.R.EXTENSION = None
              THEN ByteAt(result.bytes, 0) = result.R.OPCODE
              ELSE /\ ByteAt(result.bytes, 0) = ExtensionOpcode(result.R.EXTENSION)
                   /\ ByteAt(result.bytes, 1) = result.R.OPCODE
           /\ \A i \in result.as_len..(result.bytes.len - 1) :
                 i >= 4 => ByteAt(result.bytes, i) = 0

\* C21: when as_bytes returns 0, encode_request returns (it does not panic)
\* and the packet is one 4-byte unit: the opcode in byte 0 and 1 in the length
\* field.
ZeroLengthEncodesToOneUnit ==
    (result.op = "encode_request" /\ result.as_len = 0)
        => /\ result.kind = "Ok"
           /\ result.bytes.len = 4
           /\ ByteAt(result.bytes, 0) =
                  IF result.R.EXTENSION = None THEN result.R.OPCODE
                  ELSE ExtensionOpcode(result.R.EXTENSION)
           /\ ByteAt(result.bytes, 2) + 256 * ByteAt(result.bytes, 3) = 1

\* C22: an encode_request that returns has taken the next sequence number
\* and has inserted a pending-request entry for it iff the reply type has a
\* non-zero size or the display is checked, so always while it is checked; the
\* entry's checked flag is set iff the reply size is 0 and the display is
\* checked, its discard_reply flag is the argument; every other entry is as it
\* was.
PendingEntryIffReplyOrChecked ==
    [][ (result'.op = "encode_request" /\ result'.kind = "Ok")
          => LET s == result'.seq
                 R == result'.R
             IN  /\ s = request_number
                 /\ IF R.REPLY_SIZE # 0 \/ checked
                    THEN /\ DOMAIN pending_requests' = (DOMAIN pending_requests) \cup {s}
                         /\ pending_requests'[s].checked = (R.REPLY_SIZE = 0 /\ checked)
                         /\ pending_requests'[s].discard_reply = result'.discard
                         /\ \A k \in (DOMAIN pending_requests) \ {s} :
                               pending_requests'[k] = pending_requests[k]
                    ELSE pending_requests' = pending_requests
                 /\ checked => s \in DOMAIN pending_requests'
      ]_vars

\* a request without a reply has just been encoded on a checked display and
\* has its entry, flagged checked, next to that of a request with a reply that
\* is to be discarded
PendingEntryIffReplyOrCheckedWitness ==
    /\ checked
    /\ result.op = "encode_request" /\ result.kind = "Ok"
    /\ result.R = MapWindowRequest
    /\ result.seq = 1
    /\ DOMAIN pending_requests = {0, 1}
    /\ pending_requests[1].checked /\ ~pending_requests[1].discard_reply
    /\ ~pending_requests[0].checked /\ pending_requests[0].discard_reply

\* C26: the workaround recorded for a request is GlxFbconfigBug iff its
\* extension is "GLX" and its opcode is 21, or 17 with 0x10004 in bytes 32..36
\* of the packet; it is none for every other request: a GLX request with
\* opcode 17 and another word there or fewer than 36 bytes, a request outside
\* GLX with opcode 17 or 21.
WorkaroundIffGlxFbconfig ==
    (result.op = "encode_request" /\ result.kind = "Ok"
        /\ result.seq \in DOMAIN pending_requests)
        => pending_requests[result.seq].workaround =
               IF /\ result.R.EXTENSION = "GLX"
                  /\ \/ result.R.OPCODE = 21
                     \/ /\ result.R.OPCODE = 17
                        /\ result.bytes.len >= 36
                        /\ result.as_len >= 36
                        /\ result.R.word32 = Some(GlxMagic)
               THEN GlxFbconfigBug
               ELSE NoWorkaround

\* a GLX request with opcode 17, 36 bytes long with 0x10004 in the last four,
\* has just been recorded with the workaround
WorkaroundIffGlxFbconfigWitness ==
    /\ result.op = "encode_request" /\ result.kind = "Ok"
    /\ result.R = RequestType("GLX", 17, 32, FALSE, Some(GlxMagic))
    /\ result.as_len = 36
    /\ result.bytes.len = 36
    /\ result.seq \in DOMAIN pending_requests
    /\ pending_requests[result.seq].workaround = GlxFbconfigBug

\* C23: a set_checked that changes the mode leaves the pending-reply and
\* pending-error tables, the event queues, the extension cache and the request
\* counter as they are; turning the mode off removes from the pending-request
\* table the entries flagged checked and no other, turning it on removes none.
SetCheckedPurgesCheckedOnly ==
    [][ checked' # checked
          => /\ pending_requests' =
                    [k \in {j \in DOMAIN pending_requests :
                                checked' \/ ~pending_requests[j].checked}
                        |-> pending_requests[k]]
             /\ UNCHANGED <<pending_replies, pending_errors, queues, extensions,
                            request_number>>
      ]_vars

\* set_checked(false) has just run on a display with a GLX request pending
\* at 1 (its extension cached by the query at 0), a request without a reply
\* sent as number 2 and an event queued: the entry at 2 is gone, the one at 1
\* is there
SetCheckedPurgesCheckedOnlyWitness ==
    /\ ~checked
    /\ result = Unit /\ header = NoFrame
    /\ nsends = 2 /\ nwaits = 1 /\ nruns = 0
    /\ request_number = 3
    /\ DOMAIN pending_requests = {1}
    /\ pending_requests[1].workaround = GlxFbconfigBug
    /\ "GLX" \in DOMAIN extensions
    /\ Len(event_queue) = 1

\* C24: an entry leaves the pending-request table, or is replaced there, only
\* in a wait() that read a reply or an error for its sequence number, or in
\* the set_checked(false) that turns checked mode off when the entry is
\* flagged checked; no send and no other message touches it.
PendingEntryLeavesOnlyWhenAnswered ==
    [][ ~panicked'
          => \A k \in DOMAIN pending_requests :
                (k \notin DOMAIN pending_requests' \/ pending_requests'[k] # pending_requests[k])
                    => \/ /\ WaitRead
                          /\ header'[1].b0 \in {TYPE_REPLY, TYPE_ERROR}
                          /\ header'[1].seq = k
                       \/ /\ checked /\ ~checked'
                          /\ pending_requests[k].checked
      ]_vars

\* C25: on a checked display, a send that is given a sequence number which
\* still has an entry in the pending-request table: when the entry is that of
\* a request awaiting its reply, a debug build reports it (panics); when it is
\* that of a request without a reply, sent 2^16 requests ago and accepted
\* by the server without an error, nothing is reported.
WrapReportsOnlyLiveRequests ==
    [][ (result'.op = "send" /\ nsends' = nsends + 1 /\ checked
            /\ result'.seq = request_number
            /\ request_number \in DOMAIN pending_requests)
          => IF pending_requests[request_number].checked
             THEN ~panicked'
             ELSE debug_assertions => panicked'
      ]_vars

\* C27: a wait() that reads a reply whose pending request carries
\* GlxFbconfigBug does not fail in the workaround, whatever the two words at
\* 8..12 and 12..16 are: it writes their product times 2, taken modulo 2^32,
\* into bytes 4..8, reads that many 4-byte units after the header, finds the
\* pending request still there and routes the reply with the new length word.
\* For every other message bytes 4..8 are stored as they were read.
GlxReplyLengthPatched ==
    [][ WaitRead
          => LET f == header'[1]
                 product == GlxLength(f.w8, f.w12).value
             IN  IF /\ f.b0 = TYPE_REPLY
                    /\ f.seq \in DOMAIN pending_requests
                    /\ pending_requests[f.seq].workaround = GlxFbconfigBug
                 THEN /\ result'.kind \in {"Ok", "Io"}
                      /\ result'.kind = "Ok"
                            => /\ consumed' = Consumed(32, product)
                               /\ f.seq \notin DOMAIN pending_requests'
                               /\ ~pending_requests[f.seq].discard_reply
                                     => pending_replies'[f.seq].bytes = [f EXCEPT !.len = product]
                 ELSE result'.kind = "Ok"
                         => /\ (f.b0 = TYPE_REPLY /\ ~pending_requests[f.seq].discard_reply)
                                  => pending_replies'[f.seq].bytes = f
                            /\ f.b0 = TYPE_ERROR => pending_errors'[f.seq] = f
                            /\ f.b0 \notin {TYPE_REPLY, TYPE_ERROR}
                                  => event_queue'[Len(event_queue')].raw = f
      ]_vars

\* C28: while a read_packet or send_packet of wait_async or
\* send_request_internal_async is pending (the header read, the payload read,
\* the request write) a guard is armed, and dropping the future then panics.
AsyncOperationsGuarded ==
    /\ [](fut.pc # "idle" => fut.bomb)
    /\ [][result'.op = "drop" => panicked']_vars

\* C29: a transport operation of wait_async or send_request_internal_async
\* that completes with a failure makes the call return the Io error; the
\* process does not panic.
AsyncTransportFailureReturned ==
    [][ (result'.op \in {"wait_async", "send_async"} /\ result'.io = "failed")
          => (result'.kind = "Io" /\ ~panicked')
      ]_vars

\* C30: when poll_send_packet returns Ready(Ok) after any number of
\* suspensions, polled each time with the same buffer and counter, the stream
\* got every byte of the packet once and in order and bytes_written is the
\* packet length; when poll_read_packet does, the buffer holds the bytes the
\* stream gave, each once and in order, and bytes_read is the buffer length.
PolledTransportReentrant ==
    poll.state = "Ready" =>
        /\ poll.counter = Len(poll.packet)
        /\ poll.stream = poll.packet

\* C31: a send_request whose send_packet fails leaves the sequence counter
\* where it was, so that the next request gets the number of the failed one.
FailedSendLeavesNoGap ==
    [][ (result'.op = "send" /\ result'.kind = "Io") => request_number' = request_number ]_vars

\* C35: after a send_request whose send_packet returned an error (no cookie is
\* returned) the pending-request table is the one encode_request left: the
\* entry it inserted for the sequence number it took is still there.
FailedSendKeepsEntry ==
    [][ (result'.op = "send" /\ result'.kind = "Io") =>
          \E R \in RequestTypes, d \in BOOLEAN :
             \E E \in {encode_request(IF R.EXTENSION = None THEN Cur
                                       ELSE get_ext_opcode(Cur, R.EXTENSION, "present").D,
                                       R, d)} :
                /\ result'.seq = E.sequence
                /\ pending_requests' = E.D.reqs
                /\ (R.REPLY_SIZE # 0 \/ checked) =>
                       /\ E.sequence \in DOMAIN pending_requests'
                       /\ pending_requests'[E.sequence] = PendingRequestFlags(R, d, checked)
      ]_vars

\* a send has failed and the entry of its sequence number is in the table
FailedSendKeepsEntryWitness ==
    /\ result.op = "send"
    /\ result.kind = "Io"
    /\ result.seq \in DOMAIN pending_requests
    /\ ~panicked

\* C37: register_special_event(xid) leaves xid registered with an empty queue,
\* whatever was queued on it before; unregister_special_event(xid) leaves xid
\* unregistered, and changes nothing when it was not registered; neither
\* touches the main queue or the queue of another xid.
SpecialQueueRegistration ==
    [][ result'.op \in {"register_special_event", "unregister_special_event"} =>
          /\ event_queue' = event_queue
          /\ \A y \in Xids \ {result'.eid} :
                 /\ y \in DOMAIN special_event_queues' <=> y \in DOMAIN special_event_queues
                 /\ y \in DOMAIN special_event_queues =>
                        special_event_queues'[y] = special_event_queues[y]
          /\ result'.op = "register_special_event" =>
                 /\ result'.eid \in DOMAIN special_event_queues'
                 /\ special_event_queues'[result'.eid] = << >>
          /\ result'.op = "unregister_special_event" =>
                 /\ result'.eid \notin DOMAIN special_event_queues'
                 /\ result'.eid \notin DOMAIN special_event_queues =>
                        special_event_queues' = special_event_queues
      ]_vars

\* register_special_event has just replaced a queue that had an event on it,
\* while the main queue and the other special queue hold events
SpecialQueueRegistrationWitness ==
    /\ result.op = "register_special_event"
    /\ result.old # << >>
    /\ result.old[1] # << >>
    /\ special_event_queues[result.eid] = << >>
    /\ event_queue # << >>
    /\ \E y \in DOMAIN special_event_queues : special_event_queues[y] # << >>

\* C36: whenever next() of the XID generator gets to assert_eq!(last, max),
\* last equals max: in XidGeneratorUnsync for every base and mask, and in
\* XidGeneratorSync for the values a thread loaded, whatever other threads
\* did between its loads.
XidAssertionHolds ==
    /\ ~panicked
    /\ (variant = "unsync" /\ AtLimit(xid.last, xid.max, xid.inc)) => xid.last = xid.max
    /\ variant = "sync" =>
           \A t \in Threads :
              (xthr[t].pc = "loaded_max" /\ AtLimit(xthr[t].last, xthr[t].max, xid.inc))
                  => xthr[t].last = xthr[t].max

\* a thread is at the assertion with the last id of the range loaded while
\* another thread is inside next()
XidAssertionHoldsWitness ==
    /\ variant = "sync"
    /\ \E t \in Threads, u \in Threads :
           /\ t # u
           /\ xthr[t].pc = "loaded_max"
           /\ AtLimit(xthr[t].last, xthr[t].max, xid.inc)
           /\ xthr[t].last # Zero32
           /\ xthr[u].pc \notin {"idle", "loaded_last"}

\* C34: in the thread-safe variant, once set_checked(false) has returned and
\* the sends that ran alongside it have finished (no thread is inside a call,
\* the display is unchecked), every entry of the pending-request table has its
\* checked flag false and belongs to a request the server will answer.
CheckedOffPurgesUnderConcurrency ==
    ((\A t \in Threads : pc[t] = "idle") /\ ~checked /\ ~panicked) =>
        \A s \in DOMAIN pending_requests :
            /\ ~pending_requests[s].checked
            /\ \E o \in outstanding : o.cookie = s

\* C33: in the thread-safe variant, whenever another thread looks at the
\* tables while wait() routes the reply or error of a request whose reply is
\* not discarded, the request's sequence number is in the pending-request,
\* the pending-reply or the pending-error table.
RoutingAtomicToObservers ==
    \A t \in Threads :
        (pc[t] = "removed" /\ ~tflags[t].flags.discard_reply) =>
            tflags[t].bytes[1].seq \in (DOMAIN pending_requests) \cup (DOMAIN pending_replies)
                                          \cup (DOMAIN pending_errors)

====
